---- MODULE Spec2Model ----
(***************************************************************************)
(* Model of the demo trading dashboard backend: the in-memory mock store   *)
(* (src/src/state.ts), the statistics computed by the store and by the     *)
(* exchange adapter (src/src/binance/service.ts), the symbol conversions   *)
(* and the settings endpoints of the HTTP layer (src/unnamed/part_001).    *)
(*                                                                         *)
(* Units.  Prices, balances and profits are integers in cents (1/100).     *)
(* Quantities are integers in hundredths.  A product price * quantity is   *)
(* therefore in units of 1/10000.  Percentages are in hundredths of a      *)
(* percent.  Arithmetic is exact decimal arithmetic; Math.round is         *)
(* round-half-up (towards +infinity).                                      *)
(* Strings the code inspects character by character are sequences of       *)
(* one-character strings.  A nullable value is <<>> (null) or <<v>>.       *)
(***************************************************************************)
EXTENDS Integers, Sequences, FiniteSets, TLC

VARIABLES
    trades,       \* state.trades: [active, history], sequences of trade records
    logs,         \* state.logs, newest first
    account,      \* state.account: [totalBalance, availableBalance, positions]
    settings,     \* state.settings (the fields the model follows)
    autoTrading,  \* state.autoTrading: [enabled, isRunning]
    env,          \* the deployment's bindings: [BINANCE_API_KEY, BINANCE_API_SECRET]
    clock,        \* logical time: the number of handlers that have written a
                  \* timestamp; `now` at module load is 0
    last,         \* the last operation: its name, input and result
    statsIn,      \* input of the statistics functions: a list of trades
    statsOut,     \* result of the last statistics computation
    symIn,        \* input of the symbol conversions: [base, quote]
    symOut,       \* result of the last symbol conversion
    exchange,     \* the exchange account the adapter talks to:
                  \* [positions, account]
    orders,       \* the payloads handed to client.postOrder so far
    services      \* the BinanceFuturesService instances built so far, one
                  \* per request: their memoized promises and pending calls

vars == <<trades, logs, account, settings, autoTrading, env, clock, last,
          statsIn, statsOut, symIn, symOut, exchange, orders, services>>

storeVars == <<trades, logs, account, settings, autoTrading, env, clock>>
statsVars == <<statsIn, statsOut>>
symVars == <<symIn, symOut>>
exchVars == <<exchange, orders, services>>

----------------------------------------------------------------------------
(* Bounds of the model *)

\* handler invocations that append to the activity log, per behaviour
MaxOps == 3
\* longest trade list given to the statistics functions
MaxTrades == 3
\* longest base asset given to the symbol conversions
MaxBaseLen == 2
\* the values sin() takes are k / SinSteps, k in -SinSteps..SinSteps
SinSteps == 1

----------------------------------------------------------------------------
(* Nullable values and numeric helpers *)

Null == <<>>
Some(x) == <<x>>
IsNull(v) == v = <<>>
\* JavaScript's v ?? d
Coalesce(v, d) == IF v = <<>> THEN d ELSE v[1]

Abs(n) == IF n < 0 THEN -n ELSE n
Max2(a, b) == IF a >= b THEN a ELSE b
Min2(a, b) == IF a <= b THEN a ELSE b

\* Math.round(n / d) for an even d > 0: round half up
RoundDiv(n, d) == (n + (d \div 2)) \div d
\* Math.round(n / d) for any d > 0 (small n)
RoundRatio(n, d) == (2 * n + d) \div (2 * d)

RECURSIVE SumSeq(_)
SumSeq(s) == IF s = <<>> THEN 0 ELSE s[1] + SumSeq(Tail(s))

\* Array.prototype.findIndex: the first index satisfying Test, 0 when none
FindIndex(s, Test(_)) ==
    IF \E i \in 1..Len(s) : Test(s[i])
    THEN CHOOSE i \in 1..Len(s) : Test(s[i]) /\ \A j \in 1..(i - 1) : ~Test(s[j])
    ELSE 0

\* Array.prototype.splice(i, 1): the sequence without its i-th element
RemoveAt(s, i) == SubSeq(s, 1, i - 1) \o SubSeq(s, i + 1, Len(s))

----------------------------------------------------------------------------
(* Character strings *)

\* String.prototype.toUpperCase on one character
UpperChar(c) ==
    CASE c = "a" -> "A" [] c = "b" -> "B" [] c = "d" -> "D" [] c = "e" -> "E"
      [] c = "g" -> "G" [] c = "h" -> "H" [] c = "l" -> "L" [] c = "n" -> "N"
      [] c = "o" -> "O" [] c = "r" -> "R"
      [] c = "s" -> "S" [] c = "t" -> "T" [] c = "u" -> "U"
      [] OTHER -> c

ToUpperCase(s) == [i \in 1..Len(s) |-> UpperChar(s[i])]

\* String.prototype.replace(ch, ''): removes the first occurrence only
ReplaceFirst(s, ch) ==
    LET i == FindIndex(s, LAMBDA c : c = ch)
    IN IF i = 0 THEN s ELSE RemoveAt(s, i)

EndsWith(s, suffix) ==
    /\ Len(suffix) <= Len(s)
    /\ SubSeq(s, Len(s) - Len(suffix) + 1, Len(s)) = suffix

StartsWith(s, prefix) ==
    /\ Len(prefix) <= Len(s)
    /\ SubSeq(s, 1, Len(prefix)) = prefix

Includes(s, ch) == \E i \in 1..Len(s) : s[i] = ch

----------------------------------------------------------------------------
(* Seed data of the mock store *)

BTC_USDT == <<"B","T","C","/","U","S","D","T">>
ETH_USDT == <<"E","T","H","/","U","S","D","T">>
BNB_USDT == <<"B","N","B","/","U","S","D","T">>
SOL_USDT == <<"S","O","L","/","U","S","D","T">>
XRP_USDT == <<"X","R","P","/","U","S","D","T">>
BTCUSDT == <<"B","T","C","U","S","D","T">>
ETHUSDT == <<"E","T","H","U","S","D","T">>
BNBUSDT == <<"B","N","B","U","S","D","T">>
SOLUSDT == <<"S","O","L","U","S","D","T">>
XRPUSDT == <<"X","R","P","U","S","D","T">>

initialActiveTrades == <<
    [id |-> "trade-btc-long-active", symbol |-> BTC_USDT, type |-> "long",
     status |-> "active", entryPrice |-> 6725045, exitPrice |-> Null,
     quantity |-> 35, leverage |-> 5, profit |-> Null, profitPercent |-> Null,
     entryTime |-> -360, exitTime |-> Null],
    [id |-> "trade-eth-short-active", symbol |-> ETH_USDT, type |-> "short",
     status |-> "active", entryPrice |-> 318560, exitPrice |-> Null,
     quantity |-> 450, leverage |-> 4, profit |-> Null, profitPercent |-> Null,
     entryTime |-> -240, exitTime |-> Null],
    [id |-> "trade-sol-long-active", symbol |-> SOL_USDT, type |-> "long",
     status |-> "active", entryPrice |-> 18275, exitPrice |-> Null,
     quantity |-> 12000, leverage |-> 2, profit |-> Null, profitPercent |-> Null,
     entryTime |-> -35, exitTime |-> Null] >>

initialHistoryTrades == <<
    [id |-> "trade-btc-long-1", symbol |-> BTC_USDT, type |-> "long",
     status |-> "closed", entryPrice |-> 6520012, exitPrice |-> Some(6684055),
     quantity |-> 40, leverage |-> 4, profit |-> Some(65570),
     profitPercent |-> Some(251), entryTime |-> -2880, exitTime |-> Some(-1800)],
    [id |-> "trade-eth-short-1", symbol |-> ETH_USDT, type |-> "short",
     status |-> "closed", entryPrice |-> 328040, exitPrice |-> Some(316280),
     quantity |-> 320, leverage |-> 3, profit |-> Some(37699),
     profitPercent |-> Some(359), entryTime |-> -4800, exitTime |-> Some(-3000)],
    [id |-> "trade-bnb-long-1", symbol |-> BNB_USDT, type |-> "long",
     status |-> "closed", entryPrice |-> 51225, exitPrice |-> Some(49810),
     quantity |-> 2500, leverage |-> 2, profit |-> Some(-35375),
     profitPercent |-> Some(-276), entryTime |-> -7200, exitTime |-> Some(-5760)],
    [id |-> "trade-sol-long-1", symbol |-> SOL_USDT, type |-> "long",
     status |-> "closed", entryPrice |-> 16540, exitPrice |-> Some(17920),
     quantity |-> 8000, leverage |-> 2, profit |-> Some(110160),
     profitPercent |-> Some(833), entryTime |-> -5760, exitTime |-> Some(-4800)],
    [id |-> "trade-xrp-short-1", symbol |-> XRP_USDT, type |-> "short",
     status |-> "closed", entryPrice |-> 62, exitPrice |-> Some(59),
     quantity |-> 120000, leverage |-> 3, profit |-> Some(10800),
     profitPercent |-> Some(435), entryTime |-> -3600, exitTime |-> Some(-1920)] >>

initialLogs == <<
    [level |-> "info", message |-> "log-setup", timestamp |-> -1440],
    [level |-> "success", message |-> "log-connection", timestamp |-> -1080],
    [level |-> "info", message |-> "log-trade-open", timestamp |-> -360],
    [level |-> "success", message |-> "log-auto-trading", timestamp |-> -240],
    [level |-> "warning", message |-> "log-warning", timestamp |-> -45],
    [level |-> "info", message |-> "log-signal", timestamp |-> -20] >>

\* price of each symbol key, in cents
marketBaselines == <<
    [key |-> BTCUSDT, price |-> 6742000],
    [key |-> ETHUSDT, price |-> 317500],
    [key |-> BNBUSDT, price |-> 50200],
    [key |-> SOLUSDT, price |-> 18800],
    [key |-> XRPUSDT, price |-> 60] >>

accountState ==
    [totalBalance |-> 12540000,
     availableBalance |-> 8720000,
     positions |-> <<
        [symbol |-> BTCUSDT, side |-> "LONG", entryPrice |-> 6725045,
         quantity |-> 35, leverage |-> 5],
        [symbol |-> ETHUSDT, side |-> "SHORT", entryPrice |-> 318560,
         quantity |-> 450, leverage |-> 4],
        [symbol |-> SOLUSDT, side |-> "LONG", entryPrice |-> 18275,
         quantity |-> 12000, leverage |-> 2] >>]

MAX_LOGS == 100

----------------------------------------------------------------------------
(* Helpers of the mock store *)

\* round(value, 2) of a value given in units of 1/10000: the result in cents
round(value) == RoundDiv(value, 100)

toSymbolKey(symbol) == ToUpperCase(ReplaceFirst(symbol, "/"))

\* state.logs.unshift(log), then the cut to MAX_LOGS entries
addLog(lg, level, message, now) ==
    LET added == <<[level |-> level, message |-> message, timestamp |-> now]>> \o lg
    IN IF Len(added) > MAX_LOGS THEN SubSeq(added, 1, MAX_LOGS) ELSE added

\* The values Math.sin takes in jitter(): k / SinSteps
SinValues == (-SinSteps)..SinSteps

\* getMarketSnapshot(symbol) when sin(Date.now() / 60000) = k / SinSteps:
\* null for an unknown symbol, else the snapshot with its jittered price
getMarketSnapshot(symbol, k) ==
    LET key == toSymbolKey(symbol)
        i == FindIndex(marketBaselines, LAMBDA m : m.key = key)
    IN IF i = 0 THEN Null
       ELSE LET base == marketBaselines[i]
                \* jitter(0, base.price * 0.0025) = sin * base.price * 0.0025
                drift == RoundRatio(k * base.price * 25, 10000 * SinSteps)
            IN Some([key |-> key, price |-> base.price + drift])

calculateProfitMissingDirection(trade, exitPrice) ==
    LET profit == (exitPrice - trade.entryPrice) * trade.quantity
        basis == trade.entryPrice * trade.quantity
    IN [profit |-> round(profit),
        profitPercent |-> IF basis = 0 THEN 0
                          ELSE RoundRatio((exitPrice - trade.entryPrice) * 10000,
                                          trade.entryPrice)]

\* profit and profitPercent of a trade closed at exitPrice.  profit / basis
\* is computed as (exitPrice - entryPrice) * direction / entryPrice.
calculateProfit(trade, exitPrice) ==
    LET direction == IF trade.type = "long" THEN 1 ELSE -1
        profit == (exitPrice - trade.entryPrice) * trade.quantity * direction
        basis == trade.entryPrice * trade.quantity
    IN [profit |-> round(profit),
        profitPercent |-> IF basis = 0 THEN 0
                          ELSE RoundRatio((exitPrice - trade.entryPrice) * direction * 10000,
                                          trade.entryPrice)]

RECURSIVE marginUsedFrom(_)
marginUsedFrom(positions) ==
    IF positions = <<>> THEN 0
    ELSE LET position == positions[1]
             notional == position.entryPrice * position.quantity
         IN (notional \div Max2(position.leverage, 1)) + marginUsedFrom(Tail(positions))

\* the margin of the open positions, in units of 1/10000
marginUsed(acc) == marginUsedFrom(acc.positions)

syncAccountBalances(acc) ==
    [acc EXCEPT !.availableBalance =
        round(Max2(acc.totalBalance * 100 - marginUsed(acc), 0))]

removePositionOfNone(acc, symbolKey) == acc

removePosition(acc, symbolKey) ==
    LET index == FindIndex(acc.positions, LAMBDA pos : pos.symbol = symbolKey)
    IN IF index = 0 THEN acc
       ELSE [acc EXCEPT !.positions = RemoveAt(acc.positions, index)]


----------------------------------------------------------------------------
(* closeTrade and closeAllTrades.  A store value S is the part of `state`  *)
(* these functions touch: [trades, logs, account].                         *)

\* exitPrice = round(basePrice + adjustment, 2), with basePrice the market
\* price (the entry price when the symbol has no market) and both whole cents
exitPriceOf(trade, market) ==
    (IF IsNull(market) THEN trade.entryPrice ELSE market[1].price)
        + (IF trade.type = "long" THEN 40 ELSE -40)

closedTradeKeepsStatus(trade, exitPrice, pp, now) ==
    [trade EXCEPT !.exitPrice = Some(exitPrice),
                  !.profit = Some(pp.profit),
                  !.profitPercent = Some(pp.profitPercent)]

\* the record closeTrade puts into history
closedTradeOf(trade, exitPrice, pp, now) ==
    [trade EXCEPT !.status = "closed",
                  !.exitPrice = Some(exitPrice),
                  !.exitTime = Some(now),
                  !.profit = Some(pp.profit),
                  !.profitPercent = Some(pp.profitPercent)]

accountAfterCloseSyncsFirst(acc, trade, profit) ==
    removePosition(
        syncAccountBalances([acc EXCEPT !.totalBalance = acc.totalBalance + profit]),
        toSymbolKey(trade.symbol))

\* state.account after the close: the profit added to the total balance
\* (both whole cents), the position removed, the available balance recomputed
accountAfterClose(acc, trade, profit) ==
    syncAccountBalances(
        removePosition([acc EXCEPT !.totalBalance = acc.totalBalance + profit],
                       toSymbolKey(trade.symbol)))

\* the writes of closeTrade once the closed record is built
storeAfterClose(S, tradeIndex, trade, closedTrade, profit, now) ==
    [S |-> [trades |-> [active |-> RemoveAt(S.trades.active, tradeIndex),
                        history |-> <<closedTrade>> \o S.trades.history],
            account |-> accountAfterClose(S.account, trade, profit),
            logs |-> addLog(S.logs, IF profit >= 0 THEN "success" ELSE "warning",
                            "trade-closed", now)],
     ret |-> Some(closedTrade)]

closeWithProfit(S, tradeIndex, trade, exitPrice, pp, now) ==
    storeAfterClose(S, tradeIndex, trade, closedTradeOf(trade, exitPrice, pp, now),
                    pp.profit, now)

closeAtPrice(S, tradeIndex, trade, exitPrice, now) ==
    closeWithProfit(S, tradeIndex, trade, exitPrice,
                    calculateProfit(trade, exitPrice), now)

\* closeTrade from the splice on, for the trade found at tradeIndex
closeFound(S, tradeIndex, trade, k, now) ==
    closeAtPrice(S, tradeIndex, trade,
                 exitPriceOf(trade, getMarketSnapshot(toSymbolKey(trade.symbol), k)),
                 now)

closeTradeAtLogsMiss(S, tradeIndex, k, now) ==
    IF tradeIndex = 0
    THEN [S |-> [S EXCEPT !.logs = addLog(S.logs, "warning", "trade-not-found", now)],
          ret |-> Null]
    ELSE closeFound(S, tradeIndex, S.trades.active[tradeIndex], k, now)

closeTradeAt(S, tradeIndex, k, now) ==
    IF tradeIndex = 0 THEN [S |-> S, ret |-> Null]
    ELSE closeFound(S, tradeIndex, S.trades.active[tradeIndex], k, now)

\* closeTrade(tradeId) at time now, with sin(Date.now() / 60000) = k / SinSteps:
\* the store afterwards and the value returned
closeTrade(S, tradeId, k, now) ==
    closeTradeAt(S, FindIndex(S.trades.active, LAMBDA t : t.id = tradeId), k, now)

\* closed.push(result) when closeTrade returned a trade
pushResult(closed, ret) == IF IsNull(ret) THEN closed ELSE Append(closed, ret[1])

\* the forEach of closeAllTrades over the ids of currentlyActive[i..]
RECURSIVE closeEach(_, _, _, _, _, _)
closeNext(r, currentlyActive, i, closed, k, now) ==
    closeEach(r.S, currentlyActive, i + 1, pushResult(closed, r.ret), k, now)

closeEach(S, currentlyActive, i, closed, k, now) ==
    IF i > Len(currentlyActive) THEN [S |-> S, ret |-> closed]
    ELSE closeNext(closeTrade(S, currentlyActive[i].id, k, now),
                   currentlyActive, i, closed, k, now)

\* a forEach over the live array: the entry after each removed one is skipped
RECURSIVE closeEachLive(_, _, _, _, _)
closeNextLive(r, i, closed, k, now) ==
    closeEachLive(r.S, i + 1, pushResult(closed, r.ret), k, now)

closeEachLive(S, i, closed, k, now) ==
    IF i > Len(S.trades.active) THEN [S |-> S, ret |-> closed]
    ELSE closeNextLive(closeTrade(S, S.trades.active[i].id, k, now), i, closed, k, now)

closeAllTradesOverLiveArray(S, k, now) == closeEachLive(S, 1, <<>>, k, now)

closeAllTrades(S, k, now) == closeEach(S, S.trades.active, 1, <<>>, k, now)

\* getTradesHistory(): a copy of the history sorted by exit (else entry) time,
\* latest first; the sort is stable (insertion into a sorted copy)
RECURSIVE sortByTimeDesc(_)
sortByTimeDesc(s) ==
    IF s = <<>> THEN <<>>
    ELSE LET rest == sortByTimeDesc(SubSeq(s, 1, Len(s) - 1))
             x == s[Len(s)]
             tx == Coalesce(x.exitTime, x.entryTime)
             \* x goes after every entry that is not strictly earlier than it
             n == Cardinality({j \in 1..Len(rest) :
                                 Coalesce(rest[j].exitTime, rest[j].entryTime) >= tx})
         IN SubSeq(rest, 1, n) \o <<x>> \o SubSeq(rest, n + 1, Len(rest))

\* a sort of state.trades.history itself instead of the copy [...history]
getTradesHistorySortsInPlace(S) ==
    [S |-> [S EXCEPT !.trades.history = sortByTimeDesc(S.trades.history)],
     ret |-> sortByTimeDesc(S.trades.history)]

\* getTradesHistory(): the store as it leaves it, and the sorted copy it returns
getTradesHistory(S) == [S |-> S, ret |-> sortByTimeDesc(S.trades.history)]

getActiveTrades(S) == [S |-> S, ret |-> S.trades.active]


----------------------------------------------------------------------------
(* Settings.  A JSON value is a record [t, v] with t its typeof class.     *)
(* state.settings and a request body are functions from field names to     *)
(* JSON values; a field that is absent is not in the DOMAIN.               *)

JNull == [t |-> "null", v |-> <<>>]
JStr(s) == [t |-> "string", v |-> s]
JBool(b) == [t |-> "boolean", v |-> b]
JNum(n) == [t |-> "number", v |-> n]
JNaN == [t |-> "nan", v |-> <<>>]

\* typeof value === 'number' / 'string'
IsNumber(j) == j.t \in {"number", "nan"}
IsString(j) == j.t = "string"

\* Boolean(value), and the truthiness test of `if (value)`
Truthy(j) ==
    CASE j.t = "null" -> FALSE
      [] j.t = "nan" -> FALSE
      [] j.t = "boolean" -> j.v
      [] j.t = "number" -> j.v # 0
      [] j.t = "string" -> j.v # <<>>

\* the bullet character U+2022 of maskSecret, written "#"
MaskChar == "#"
Whitespace == {" "}

RECURSIVE TrimStart(_)
TrimStart(s) ==
    IF s # <<>> /\ s[1] \in Whitespace THEN TrimStart(Tail(s)) ELSE s

RECURSIVE TrimEnd(_)
TrimEnd(s) ==
    IF s # <<>> /\ s[Len(s)] \in Whitespace
    THEN TrimEnd(SubSeq(s, 1, Len(s) - 1)) ELSE s

\* String.prototype.trim
Trim(s) == TrimEnd(TrimStart(s))

DigitValue(c) ==
    CASE c = "0" -> 0 [] c = "1" -> 1 [] c = "2" -> 2 [] c = "3" -> 3
      [] c = "4" -> 4 [] c = "5" -> 5 [] c = "6" -> 6 [] c = "7" -> 7
      [] c = "8" -> 8 [] c = "9" -> 9 [] OTHER -> -1

RECURSIVE DigitsValue(_)
DigitsValue(s) ==
    IF s = <<>> THEN 0
    ELSE 10 * DigitsValue(SubSeq(s, 1, Len(s) - 1)) + DigitValue(s[Len(s)])

\* Number(string) for the strings the model submits: blank is 0, a run of
\* decimal digits is its value, anything else is NaN
NumberOf(s) ==
    LET t == Trim(s)
    IN IF t = <<>> THEN JNum(0)
       ELSE IF \A i \in 1..Len(t) : DigitValue(t[i]) >= 0 THEN JNum(DigitsValue(t))
       ELSE JNaN

ENV_PLACEHOLDER == <<"_","_","e","n","v","_","_">>

defaultSettings ==
    [binanceApiKey |-> JStr(<<"d","e","m","o","-","a","p","i","-","k","e","y">>),
     binanceApiSecret |-> JStr(<<"d","e","m","o","-","s","e","c","r","e","t">>),
     isActive |-> JBool(TRUE),
     autoTradingEnabled |-> JBool(TRUE),
     maxDailyTrades |-> JNum(12)]

autoTradingState ==
    [enabled |-> Truthy(defaultSettings.autoTradingEnabled),
     isRunning |-> Truthy(defaultSettings.autoTradingEnabled)]

\* the value updateSettings stores for one entry of its input
updatedValue(current, key, value) ==
    IF key \in DOMAIN current /\ IsNumber(current[key]) /\ IsString(value)
    THEN NumberOf(value.v)
    ELSE value

\* { ...state.settings, ...updated }
mergeSettings(current, input) ==
    [key \in DOMAIN current \cup DOMAIN input |->
        IF key \in DOMAIN input THEN updatedValue(current, key, input[key])
        ELSE current[key]]

autoTradingAfterUpdateKeepsRunning(auto, input) ==
    IF "autoTradingEnabled" \in DOMAIN input
    THEN [enabled |-> Truthy(input["autoTradingEnabled"]),
          isRunning |-> auto.isRunning]
    ELSE auto

\* the autoTrading state after updateSettings(input)
autoTradingAfterUpdate(auto, input) ==
    IF "autoTradingEnabled" \in DOMAIN input
    THEN [enabled |-> Truthy(input["autoTradingEnabled"]),
          isRunning |-> Truthy(input["autoTradingEnabled"])]
    ELSE auto

RECURSIVE Repeat(_, _)
Repeat(c, n) == IF n <= 0 THEN <<>> ELSE <<c>> \o Repeat(c, n - 1)

maskSecretShortInClear(j) ==
    IF ~Truthy(j) THEN <<>>
    ELSE IF Len(j.v) <= 4 THEN j.v
    ELSE Repeat(MaskChar, Max2(Len(j.v) - 4, 0)) \o SubSeq(j.v, Len(j.v) - 3, Len(j.v))

\* maskSecret of a string; '' for a null or empty value
maskSecret(j) ==
    IF ~Truthy(j) THEN <<>>
    ELSE IF Len(j.v) <= 4 THEN Repeat(MaskChar, Len(j.v))
    ELSE Repeat(MaskChar, Max2(Len(j.v) - 4, 0)) \o SubSeq(j.v, Len(j.v) - 3, Len(j.v))

\* env.X is set and not the empty string
EnvSet(e) == e # Null /\ e[1] # <<>>

sanitizedSecret(j, e) ==
    IF EnvSet(e) THEN JStr(ENV_PLACEHOLDER)
    ELSE IF Truthy(j) THEN JStr(maskSecret(j))
    ELSE j

sanitizeSettingsResponse(st, e) ==
    [key \in DOMAIN st |->
        CASE key = "binanceApiKey" -> sanitizedSecret(st[key], e.BINANCE_API_KEY)
          [] key = "binanceApiSecret" -> sanitizedSecret(st[key], e.BINANCE_API_SECRET)
          [] OTHER -> st[key]]

dropsIncomingNoMaskTest(j, e) ==
    \/ EnvSet(e)
    \/ /\ IsString(j)
       /\ \/ StartsWith(j.v, ENV_PLACEHOLDER)
          \/ Trim(j.v) = <<>>

\* the test that makes sanitizeIncomingSettings delete a secret field
dropsIncoming(j, e) ==
    \/ EnvSet(e)
    \/ /\ IsString(j)
       /\ \/ StartsWith(j.v, ENV_PLACEHOLDER)
          \/ Trim(j.v) = <<>>
          \/ Includes(j.v, MaskChar)

sanitizeIncomingSettings(payload, e) ==
    LET dropKey == /\ "binanceApiKey" \in DOMAIN payload
                   /\ dropsIncoming(payload["binanceApiKey"], e.BINANCE_API_KEY)
        dropSecret == /\ "binanceApiSecret" \in DOMAIN payload
                      /\ dropsIncoming(payload["binanceApiSecret"], e.BINANCE_API_SECRET)
        kept == (DOMAIN payload \ (IF dropKey THEN {"binanceApiKey"} ELSE {}))
                    \ (IF dropSecret THEN {"binanceApiSecret"} ELSE {})
    IN [key \in kept |-> payload[key]]


----------------------------------------------------------------------------
(* The mock store as a state machine: one action per exported function *)

Store == [trades |-> trades, logs |-> logs, account |-> account]

\* the handlers that append to the log run while the budget lasts
CanAppend == Len(logs) < Len(initialLogs) + MaxOps

NoEnv == [BINANCE_API_KEY |-> Null, BINANCE_API_SECRET |-> Null]

InitStore ==
    /\ trades = [active |-> initialActiveTrades, history |-> initialHistoryTrades]
    /\ logs = initialLogs
    /\ account = accountState
    /\ settings = defaultSettings
    /\ autoTrading = autoTradingState
    /\ clock = 0
    /\ last = [op |-> "init"]

IdleStats == statsIn = <<>> /\ statsOut = [mock |-> Null, service |-> Null]
IdleSym == symIn = <<>> /\ symOut = [op |-> "none", value |-> <<>>, trips |-> 0]
\* an exchange account with no position, and no order posted
NoExchange ==
    [positions |-> <<>>,
     account |-> [totalWalletBalance |-> 0, availableBalance |-> 0,
                  dualSidePosition |-> FALSE]]
IdleExchange == exchange = NoExchange /\ orders = <<>> /\ services = <<>>

Init == InitStore /\ env = NoEnv /\ IdleStats /\ IdleSym /\ IdleExchange

\* the ids a close request names: those of the seed trades and an unknown one
TradeIds == {initialActiveTrades[i].id : i \in 1..Len(initialActiveTrades)}
                \cup {"trade-unknown"}

CloseTrade ==
    /\ CanAppend
    /\ \E tradeId \in TradeIds, k \in SinValues :
          \E r \in {closeTrade(Store, tradeId, k, clock + 1)} :
             /\ trades' = r.S.trades
             /\ logs' = r.S.logs
             /\ account' = r.S.account
             /\ last' = [op |-> "closeTrade", tradeId |-> tradeId, ret |-> r.ret]
             /\ clock' = IF IsNull(r.ret) THEN clock ELSE clock + 1
    /\ UNCHANGED <<settings, autoTrading, env, statsVars, symVars, exchVars>>

CloseAllTrades ==
    /\ CanAppend
    /\ \E k \in SinValues :
          \E r \in {closeAllTrades(Store, k, clock + 1)} :
             /\ trades' = r.S.trades
             /\ logs' = r.S.logs
             /\ account' = r.S.account
             /\ last' = [op |-> "closeAllTrades", ret |-> r.ret]
             /\ clock' = IF r.ret = <<>> THEN clock ELSE clock + 1
    /\ UNCHANGED <<settings, autoTrading, env, statsVars, symVars, exchVars>>

\* the inputs the store's updateSettings is called with in Spec
StoreInputs ==
    {[f \in {"autoTradingEnabled"} |-> JBool(b)] : b \in BOOLEAN}
        \cup {[f \in {"maxDailyTrades"} |-> JStr(<<"7">>)]}

\* updateSettings(input): merge, follow autoTradingEnabled, log
updateSettingsEffect(input) ==
    /\ settings' = mergeSettings(settings, input)
    /\ autoTrading' = autoTradingAfterUpdate(autoTrading, input)
    /\ logs' = addLog(logs, "success", "settings-updated", clock + 1)
    /\ clock' = clock + 1

UpdateSettings ==
    /\ CanAppend
    /\ \E input \in StoreInputs :
          /\ updateSettingsEffect(input)
          /\ last' = [op |-> "updateSettings", input |-> input]
    /\ UNCHANGED <<trades, account, env, statsVars, symVars, exchVars>>

StartAutoTrading ==
    /\ CanAppend
    /\ autoTrading' = [enabled |-> TRUE, isRunning |-> TRUE]
    /\ settings' = [settings EXCEPT !["autoTradingEnabled"] = JBool(TRUE)]
    /\ logs' = addLog(logs, "success", "auto-trading-started", clock + 1)
    /\ clock' = clock + 1
    /\ last' = [op |-> "startAutoTrading"]
    /\ UNCHANGED <<trades, account, env, statsVars, symVars, exchVars>>

StopAutoTrading ==
    /\ CanAppend
    /\ autoTrading' = [autoTrading EXCEPT !.isRunning = FALSE]
    /\ settings' = [settings EXCEPT !["autoTradingEnabled"] = JBool(FALSE)]
    /\ logs' = addLog(logs, "warning", "auto-trading-stopped", clock + 1)
    /\ clock' = clock + 1
    /\ last' = [op |-> "stopAutoTrading"]
    /\ UNCHANGED <<trades, account, env, statsVars, symVars, exchVars>>

ToggleBotActive ==
    /\ CanAppend
    /\ \E isActive \in {~Truthy(settings["isActive"])} :
          /\ settings' = [settings EXCEPT !["isActive"] = JBool(isActive)]
          /\ logs' = addLog(logs, IF isActive THEN "success" ELSE "warning",
                            IF isActive THEN "bot-activated" ELSE "bot-stopped",
                            clock + 1)
          /\ last' = [op |-> "toggleBotActive", ret |-> isActive]
    /\ clock' = clock + 1
    /\ UNCHANGED <<trades, account, autoTrading, env, statsVars, symVars, exchVars>>

\* the read accessors return copies and leave the store alone
GetTradesHistory ==
    /\ \E r \in {getTradesHistory(Store)} :
          /\ trades' = r.S.trades
          /\ logs' = r.S.logs
          /\ account' = r.S.account
          /\ last' = [op |-> "getTradesHistory", ret |-> r.ret]
    /\ UNCHANGED <<settings, autoTrading, env, clock, statsVars, symVars, exchVars>>

GetActiveTrades ==
    /\ \E r \in {getActiveTrades(Store)} :
          /\ trades' = r.S.trades
          /\ logs' = r.S.logs
          /\ account' = r.S.account
          /\ last' = [op |-> "getActiveTrades", ret |-> r.ret]
    /\ UNCHANGED <<settings, autoTrading, env, clock, statsVars, symVars, exchVars>>

Next ==
    \/ CloseTrade
    \/ CloseAllTrades
    \/ UpdateSettings
    \/ StartAutoTrading
    \/ StopAutoTrading
    \/ ToggleBotActive
    \/ GetTradesHistory
    \/ GetActiveTrades

Spec == Init /\ [][Next]_vars


----------------------------------------------------------------------------
(* Properties of the mock store *)

ActiveIds(tr) == {tr.active[i].id : i \in 1..Len(tr.active)}
Records(seq) == {seq[i] : i \in 1..Len(seq)}

\* (exitPrice - entryPrice) * quantity * (+1 long, -1 short), in units of 1/10000
ExactProfit(t) ==
    (t.exitPrice[1] - t.entryPrice) * t.quantity * (IF t.type = "long" THEN 1 ELSE -1)

\* what a successful closeTrade(id) does to the two lists, the profit aside:
\* the trade leaves the active list, everything else there stays in order,
\* and history gains exactly one record, the closed trade
ClosedOne(id, ProfitOk(_)) ==
    LET i == CHOOSE n \in 1..Len(trades.active) : trades.active[n].id = id
        old == trades.active[i]
    IN /\ Len(trades'.active) = Len(trades.active) - 1
       /\ \A n \in 1..Len(trades'.active) :
             trades'.active[n] = trades.active[IF n < i THEN n ELSE n + 1]
       /\ Len(trades'.history) = Len(trades.history) + 1
       /\ \E j \in 1..Len(trades'.history) :
             /\ RemoveAt(trades'.history, j) = trades.history
             /\ LET rec == trades'.history[j]
                IN /\ rec.id = id
                   /\ rec.status = "closed"
                   /\ ~IsNull(rec.exitPrice)
                   /\ ~IsNull(rec.exitTime)
                   /\ ~IsNull(rec.profit)
                   /\ rec.symbol = old.symbol /\ rec.type = old.type
                   /\ rec.entryPrice = old.entryPrice /\ rec.quantity = old.quantity
                   /\ ProfitOk(rec)

ClosesActive == last'.op = "closeTrade" /\ last'.tradeId \in ActiveIds(trades)

\* C1 as stated: closeTrade(id) of an active id moves that one trade to
\* history as a closed record whose profit is exactly
\* (exitPrice - entryPrice) * quantity * direction, and touches nothing else.
C1_AsStated ==
    [][ClosesActive =>
          ClosedOne(last'.tradeId, LAMBDA rec : rec.profit[1] * 100 = ExactProfit(rec))]_vars

\* C1 amended: the same, with the profit being that product rounded to 2
\* decimals (within half a cent of it).
C1_CloseMovesOneTrade ==
    [][ClosesActive =>
          ClosedOne(last'.tradeId,
                    LAMBDA rec : 2 * Abs(rec.profit[1] * 100 - ExactProfit(rec)) <= 100)]_vars

\* a short trade has been closed with a profit (the direction factor is -1)
C1_Witness ==
    /\ last.op = "closeTrade"
    /\ ~IsNull(last.ret)
    /\ last.ret[1].type = "short"
    /\ last.ret[1].profit[1] > 0
    /\ trades.history[1] = last.ret[1]

\* C2: closeAllTrades() empties the active list, lengthens history by the
\* number of trades that were active, and returns that many closed trades.
C2_CloseAllEmptiesActive ==
    [][last'.op = "closeAllTrades" =>
          /\ trades'.active = <<>>
          /\ Len(trades'.history) = Len(trades.history) + Len(trades.active)
          /\ Len(last'.ret) = Len(trades.active)]_vars

\* closeAllTrades has closed two or more trades in one call
C2_Witness ==
    /\ last.op = "closeAllTrades"
    /\ Len(last.ret) >= 2
    /\ trades.active = <<>>

\* C3: every active trade has status 'active' and no exit price or time;
\* every history record has status 'closed' and both of them.
C3_StatusMatchesExitFields ==
    /\ \A i \in 1..Len(trades.active) :
          /\ trades.active[i].status = "active"
          /\ IsNull(trades.active[i].exitPrice)
          /\ IsNull(trades.active[i].exitTime)
    /\ \A i \in 1..Len(trades.history) :
          /\ trades.history[i].status = "closed"
          /\ ~IsNull(trades.history[i].exitPrice)
          /\ ~IsNull(trades.history[i].exitTime)

\* a trade closed by the store is in history, another is still active, and a
\* settings or control operation has run since
C3_Witness ==
    /\ Len(trades.history) > Len(initialHistoryTrades)
    /\ trades.active # <<>>
    /\ last.op \in {"updateSettings", "startAutoTrading", "stopAutoTrading",
                    "toggleBotActive"}

\* C4: no operation changes or removes a history record: after every step
\* the old history is the tail of the new one, record for record, and each
\* record in front of it is a trade that was active and no longer is.
C4_HistoryImmutable ==
    [][LET added == Len(trades'.history) - Len(trades.history)
       IN /\ added >= 0
          /\ SubSeq(trades'.history, added + 1, Len(trades'.history)) = trades.history
          /\ \A j \in 1..added :
                /\ trades'.history[j].id \in ActiveIds(trades)
                /\ trades'.history[j].id \notin ActiveIds(trades')]_vars

\* a record closed by an earlier call is still in history after a read
\* accessor or a later close
C4_Witness ==
    /\ Len(trades.history) > Len(initialHistoryTrades)
    /\ \/ last.op = "getTradesHistory"
       \/ /\ last.op = "closeTrade"
          /\ ~IsNull(last.ret)
          /\ Len(trades.history) >= Len(initialHistoryTrades) + 2

\* the sum over the positions of entryPrice * quantity / leverage, in units
\* of 1/10000
PositionMargins(positions) ==
    SumSeq([i \in 1..Len(positions) |->
               (positions[i].entryPrice * positions[i].quantity) \div positions[i].leverage])

\* every quotient in PositionMargins is exact
MarginsExact(positions) ==
    \A i \in 1..Len(positions) :
        (positions[i].entryPrice * positions[i].quantity) % positions[i].leverage = 0

\* the step is a successful closeTrade or a closeAllTrades that closed trades
ClosedSome ==
    \/ last'.op = "closeTrade" /\ ~IsNull(last'.ret)
    \/ last'.op = "closeAllTrades" /\ last'.ret # <<>>

\* the profits of the trades the step closed, in cents
ClosedProfit ==
    IF last'.op = "closeTrade" THEN last'.ret[1].profit[1]
    ELSE SumSeq([i \in 1..Len(last'.ret) |-> last'.ret[i].profit[1]])

\* C13 as stated: after a successful close the total balance is the previous
\* one plus the profit, and the available balance is exactly the total minus
\* the margins of the remaining positions.
C13_AsStated ==
    [][ClosedSome =>
          /\ MarginsExact(account'.positions)
          /\ account'.totalBalance = account.totalBalance + ClosedProfit
          /\ account'.availableBalance * 100
                = account'.totalBalance * 100 - PositionMargins(account'.positions)]_vars

\* C13 amended: the same, with the available balance being that difference
\* rounded to 2 decimals (within half a cent of it).
C13_AvailableBalance ==
    [][ClosedSome =>
          /\ MarginsExact(account'.positions)
          /\ account'.totalBalance = account.totalBalance + ClosedProfit
          /\ 2 * Abs(account'.availableBalance * 100
                       - (account'.totalBalance * 100
                            - PositionMargins(account'.positions))) <= 100]_vars

\* one trade has been closed and positions remain whose margins do not add
\* up to whole cents
C13_Witness ==
    /\ last.op = "closeTrade"
    /\ ~IsNull(last.ret)
    /\ Len(account.positions) = 2
    /\ PositionMargins(account.positions) % 100 # 0
    /\ account.availableBalance < account.totalBalance


----------------------------------------------------------------------------
(* The settings endpoints of the HTTP layer *)

DEMO_KEY == defaultSettings["binanceApiKey"].v
KEY_2 == <<"k","2","-","n","e","w">>
SECRET_2 == <<"s","2">>
ENV_KEY == <<"e","n","v","-","k","e","y">>
ENV_SECRET == <<"e","s">>

\* the deployments: each binding unset, or set (the key also set to '')
EnvChoices ==
    {[BINANCE_API_KEY |-> ek, BINANCE_API_SECRET |-> es] :
        ek \in {Null, Some(<<>>), Some(ENV_KEY)}, es \in {Null, Some(ENV_SECRET)}}

OneField(f, j) == [x \in {f} |-> j]

\* the JSON objects a client sends to PUT /api/settings
PutObjects ==
    {OneField("binanceApiKey", j) :
        j \in {JNull, JStr(<<>>), JStr(<<" ">>), JStr(ENV_PLACEHOLDER),
               JStr(ENV_PLACEHOLDER \o <<"x">>), JStr(<<MaskChar, MaskChar, "a", "b">>),
               JStr(KEY_2)}}
      \cup {OneField("binanceApiSecret", j) :
              j \in {JNull, JStr(<<MaskChar>>), JStr(SECRET_2)}}
      \cup {OneField("autoTradingEnabled", JBool(FALSE)),
            OneField("maxDailyTrades", JStr(<<"7">>)),
            [x \in {"binanceApiKey", "binanceApiSecret"} |->
                IF x = "binanceApiKey" THEN JStr(<<MaskChar, "k">>) ELSE JStr(SECRET_2)]}

\* GET /api/settings
GetSettingsReq ==
    /\ last' = [op |-> "getSettings", status |-> 200,
                response |-> sanitizeSettingsResponse(settings, env)]
    /\ UNCHANGED <<storeVars, statsVars, symVars, exchVars>>

\* PUT /api/settings with a body that is not an object
PutSettingsInvalid ==
    /\ last' = [op |-> "putSettings", status |-> 400,
                response |-> [error |-> "invalid_payload"]]
    /\ UNCHANGED <<storeVars, statsVars, symVars, exchVars>>

\* PUT /api/settings with a JSON object: one of PutObjects, or the response
\* of the GET that came just before
PutSettingsReq ==
    /\ CanAppend
    /\ \E body \in PutObjects \cup
                    (IF last.op = "getSettings" THEN {last.response} ELSE {}) :
          /\ updateSettingsEffect(sanitizeIncomingSettings(body, env))
          /\ last' = [op |-> "putSettings", status |-> 200, body |-> body,
                      echo |-> (last.op = "getSettings" /\ body = last.response),
                      response |-> sanitizeSettingsResponse(settings', env)]
    /\ UNCHANGED <<trades, account, env, statsVars, symVars, exchVars>>

InitSettings == InitStore /\ env \in EnvChoices /\ IdleStats /\ IdleSym /\ IdleExchange

NextSettings ==
    \/ GetSettingsReq
    \/ PutSettingsInvalid
    \/ PutSettingsReq

SpecSettings == InitSettings /\ [][NextSettings]_vars

\* a masked or placeholder value: a string that contains the mask character,
\* starts with '__env__', or is blank
IsMaskedOrPlaceholder(j) ==
    /\ j.t = "string"
    /\ \/ \E i \in 1..Len(j.v) : j.v[i] = MaskChar
       \/ (Len(j.v) >= 7 /\ SubSeq(j.v, 1, 7) = ENV_PLACEHOLDER)
       \/ \A i \in 1..Len(j.v) : j.v[i] = " "

SecretFields == {"binanceApiKey", "binanceApiSecret"}

\* C10: a PUT /api/settings leaves a stored secret unchanged when the value
\* submitted for it is masked or a placeholder, and leaves both unchanged when
\* the body is exactly what the preceding GET /api/settings returned.
C10_MaskedSecretsNotStored ==
    [][(last'.op = "putSettings" /\ last'.status = 200) =>
          /\ \A f \in SecretFields \cap DOMAIN last'.body :
                IsMaskedOrPlaceholder(last'.body[f]) => settings'[f] = settings[f]
          /\ last'.echo => \A f \in SecretFields : settings'[f] = settings[f]]_vars

\* the masked form of a stored key, as GET returned it with no key in the
\* environment, has been submitted back
C10_Witness ==
    /\ last.op = "putSettings"
    /\ last.status = 200
    /\ last.echo
    /\ ~EnvSet(env.BINANCE_API_KEY)
    /\ last.body["binanceApiKey"].t = "string"
    /\ \E i \in 1..Len(last.body["binanceApiKey"].v) :
          last.body["binanceApiKey"].v[i] = MaskChar
    /\ settings["binanceApiKey"].t = "string"
    /\ settings["binanceApiKey"].v \in {DEMO_KEY, KEY_2}

\* the response shows a stored secret v masked: the same length, every
\* character but the last 4 the mask character, and not v itself
ShownMasked(shown, v) ==
    /\ shown.t = "string"
    /\ Len(shown.v) = Len(v)
    /\ \A i \in 1..Len(v) :
          \/ shown.v[i] = MaskChar
          \/ (i > Len(v) - 4 /\ shown.v[i] = v[i])
    /\ shown.v # v

\* C11: the response of GET or PUT /api/settings shows each stored non-empty
\* key and secret as the placeholder '__env__' or masked, never in full.
C11_ResponsesMaskSecrets ==
    (last.op \in {"getSettings", "putSettings"} /\ last.status = 200) =>
        \A f \in SecretFields :
            (settings[f].t = "string" /\ settings[f].v # <<>>) =>
                \/ last.response[f] = JStr(ENV_PLACEHOLDER)
                \/ ShownMasked(last.response[f], settings[f].v)

\* a PUT has stored a short secret and a long key, with nothing in the
\* environment, and its response shows both
C11_Witness ==
    /\ last.op = "putSettings"
    /\ last.status = 200
    /\ env = NoEnv
    /\ settings["binanceApiSecret"] = JStr(SECRET_2)
    /\ settings["binanceApiKey"] = JStr(KEY_2)
    /\ last.response["binanceApiSecret"].v = <<MaskChar, MaskChar>>


----------------------------------------------------------------------------
(* Detailed statistics: the store's getDetailedStats and the adapter's,    *)
(* each transcribed from its own source.  The fields of the statistics     *)
(* engine are modelled; the summary fields spread into the result are not. *)

RECURSIVE sumProfit(_)
sumProfit(ts) ==
    IF ts = <<>> THEN 0 ELSE Coalesce(ts[1].profit, 0) + sumProfit(Tail(ts))

\* reduce((max, t) => Math.max(max, t.profit ?? -Infinity), seed)
RECURSIVE maxProfitFrom(_, _)
maxProfitFrom(ts, seed) ==
    IF ts = <<>> THEN seed
    ELSE maxProfitFrom(Tail(ts),
                       IF IsNull(ts[1].profit) THEN seed ELSE Max2(seed, ts[1].profit[1]))

\* reduce((min, t) => Math.min(min, t.profit ?? Infinity), seed)
RECURSIVE minProfitFrom(_, _)
minProfitFrom(ts, seed) ==
    IF ts = <<>> THEN seed
    ELSE minProfitFrom(Tail(ts),
                       IF IsNull(ts[1].profit) THEN seed ELSE Min2(seed, ts[1].profit[1]))

\* the sum of entryPrice * quantity, in units of 1/10000
RECURSIVE sumNotional(_)
sumNotional(ts) ==
    IF ts = <<>> THEN 0 ELSE ts[1].entryPrice * ts[1].quantity + sumNotional(Tail(ts))

winningTradesCountingZero(closedTrades) ==
    SelectSeq(closedTrades, LAMBDA t : Coalesce(t.profit, 0) >= 0)

winningTrades(closedTrades) ==
    SelectSeq(closedTrades, LAMBDA t : Coalesce(t.profit, 0) > 0)

losingTrades(closedTrades) ==
    SelectSeq(closedTrades, LAMBDA t : Coalesce(t.profit, 0) < 0)

\* round(avgProfit, 2) of the store
avgProfitOf(winning) ==
    IF winning = <<>> THEN 0 ELSE RoundRatio(sumProfit(winning), Len(winning))

avgLossWithoutAbs(losing) ==
    IF losing = <<>> THEN 0 ELSE RoundRatio(sumProfit(losing), Len(losing))

\* round(avgLoss, 2) of the store
avgLossOf(losing) ==
    IF losing = <<>> THEN 0 ELSE RoundRatio(Abs(sumProfit(losing)), Len(losing))

\* round(winRate, 2) of the store, in hundredths of a percent
winRateOf(winning, closedTrades) ==
    IF closedTrades = <<>> THEN 0
    ELSE RoundRatio(Len(winning) * 10000, Len(closedTrades))

bestTradeSeededWithFirst(closedTrades) ==
    IF closedTrades = <<>> THEN 0
    ELSE maxProfitFrom(Tail(closedTrades), Coalesce(closedTrades[1].profit, 0))

\* round(bestTrade, 2) and round(worstTrade, 2) of the store: whole cents
bestTradeOf(closedTrades) == maxProfitFrom(closedTrades, 0)
worstTradeOf(closedTrades) == minProfitFrom(closedTrades, 0)

\* the store's getDetailedStats, with closedTrades = state.trades.history
getDetailedStats(closedTrades, active) ==
    [totalTrades |-> Len(closedTrades) + Len(active),
     winRate |-> winRateOf(winningTrades(closedTrades), closedTrades),
     avgProfit |-> avgProfitOf(winningTrades(closedTrades)),
     avgLoss |-> avgLossOf(losingTrades(closedTrades)),
     bestTrade |-> bestTradeOf(closedTrades),
     worstTrade |-> worstTradeOf(closedTrades),
     totalVolume |-> RoundDiv(sumNotional(closedTrades), 10000)]

\* the adapter's filter of its history to status 'closed'
svcClosedTrades(history) == SelectSeq(history, LAMBDA t : t.status = "closed")

svcWins(closedTrades) == SelectSeq(closedTrades, LAMBDA t : Coalesce(t.profit, 0) > 0)

svcLosses(closedTrades) == SelectSeq(closedTrades, LAMBDA t : Coalesce(t.profit, 0) < 0)

svcStatsUnroundedVolume(closedTrades) ==
    [totalTrades |-> Len(closedTrades),
     winRate |-> IF closedTrades = <<>> THEN 0
                 ELSE RoundRatio(Len(svcWins(closedTrades)) * 10000, Len(closedTrades)),
     avgProfit |-> IF svcWins(closedTrades) = <<>> THEN 0
                   ELSE RoundRatio(sumProfit(svcWins(closedTrades)),
                                   Len(svcWins(closedTrades))),
     avgLoss |-> IF svcLosses(closedTrades) = <<>> THEN 0
                 ELSE RoundRatio(Abs(sumProfit(svcLosses(closedTrades))),
                                 Len(svcLosses(closedTrades))),
     bestTrade |-> maxProfitFrom(closedTrades, 0),
     worstTrade |-> minProfitFrom(closedTrades, 0),
     totalVolume |-> sumNotional(closedTrades) \div 10000]

\* the statistics of BinanceFuturesService.getDetailedStats over closedTrades
\* (totalTrades without the active-trade count of the summary)
svcStatsOfClosed(closedTrades) ==
    [totalTrades |-> Len(closedTrades),
     winRate |-> IF closedTrades = <<>> THEN 0
                 ELSE RoundRatio(Len(svcWins(closedTrades)) * 10000, Len(closedTrades)),
     avgProfit |-> IF svcWins(closedTrades) = <<>> THEN 0
                   ELSE RoundRatio(sumProfit(svcWins(closedTrades)),
                                   Len(svcWins(closedTrades))),
     avgLoss |-> IF svcLosses(closedTrades) = <<>> THEN 0
                 ELSE RoundRatio(Abs(sumProfit(svcLosses(closedTrades))),
                                 Len(svcLosses(closedTrades))),
     bestTrade |-> maxProfitFrom(closedTrades, 0),
     worstTrade |-> minProfitFrom(closedTrades, 0),
     totalVolume |-> RoundDiv(sumNotional(closedTrades), 10000)]

svcGetDetailedStats(history) == svcStatsOfClosed(svcClosedTrades(history))

\* the trades the statistics are given: wins, losses, a zero and a null
\* profit, with notionals that are not whole dollars; one trade is not closed
SampleTrades ==
    {[status |-> "closed", profit |-> Some(10000), entryPrice |-> 10050, quantity |-> 150],
     [status |-> "closed", profit |-> Some(-5000), entryPrice |-> 33, quantity |-> 100],
     [status |-> "closed", profit |-> Some(0), entryPrice |-> 10050, quantity |-> 150],
     [status |-> "closed", profit |-> Null, entryPrice |-> 33, quantity |-> 100],
     [status |-> "closed", profit |-> Some(1), entryPrice |-> 62, quantity |-> 120000],
     [status |-> "closed", profit |-> Some(-1), entryPrice |-> 62, quantity |-> 120000],
     [status |-> "active", profit |-> Some(2500), entryPrice |-> 10050, quantity |-> 150]}

TradeLists == UNION {[1..n -> SampleTrades] : n \in 0..MaxTrades}

AllClosed(ts) == \A i \in 1..Len(ts) : ts[i].status = "closed"

InitStats ==
    /\ InitStore /\ env = NoEnv /\ IdleSym /\ IdleExchange
    /\ statsIn \in TradeLists
    /\ statsOut = [mock |-> Null, service |-> Null]

\* the store computes over its history, whose records are all closed
MockGetDetailedStats ==
    /\ AllClosed(statsIn)
    /\ statsOut' = [statsOut EXCEPT !.mock = Some(getDetailedStats(statsIn, <<>>))]
    /\ UNCHANGED <<storeVars, last, statsIn, symVars, exchVars>>

ServiceGetDetailedStats ==
    /\ statsOut' = [statsOut EXCEPT !.service = Some(svcGetDetailedStats(statsIn))]
    /\ UNCHANGED <<storeVars, last, statsIn, symVars, exchVars>>

NextStats ==
    \/ MockGetDetailedStats
    \/ ServiceGetDetailedStats

SpecStats == InitStats /\ [][NextStats]_vars


----------------------------------------------------------------------------
(* Properties of the statistics, stated over the input list by index sets *)

\* the reports computed so far, by either implementation
Reports ==
    (IF IsNull(statsOut.mock) THEN {} ELSE {statsOut.mock[1]})
        \cup (IF IsNull(statsOut.service) THEN {} ELSE {statsOut.service[1]})

ClosedIdx == {i \in 1..Len(statsIn) : statsIn[i].status = "closed"}
KnownIdx == {i \in ClosedIdx : ~IsNull(statsIn[i].profit)}
WinIdx == {i \in KnownIdx : statsIn[i].profit[1] > 0}
LossIdx == {i \in KnownIdx : statsIn[i].profit[1] < 0}

RECURSIVE ProfitSum(_)
ProfitSum(I) ==
    IF I = {} THEN 0
    ELSE LET i == CHOOSE x \in I : TRUE
         IN statsIn[i].profit[1] + ProfitSum(I \ {i})

\* r is n / d rounded to the nearest unit
IsRounded(r, n, d) == 2 * Abs(r * d - n) <= d

\* C5: winRate is within [0, 100] and is 100 * wins / closed rounded to 2
\* decimals, a zero-profit closed trade counting in closed only; it is 0
\* when no trade is closed.
C5_WinRate ==
    \A r \in Reports :
        /\ r.winRate >= 0 /\ r.winRate <= 10000
        /\ ClosedIdx = {} => r.winRate = 0
        /\ ClosedIdx # {} =>
              IsRounded(r.winRate, 10000 * Cardinality(WinIdx), Cardinality(ClosedIdx))

\* both implementations have reported on a win, a loss and a closed trade of
\* zero profit: one win in three
C5_Witness ==
    /\ ~IsNull(statsOut.mock) /\ ~IsNull(statsOut.service)
    /\ Cardinality(ClosedIdx) = 3
    /\ Cardinality(WinIdx) = 1
    /\ \E i \in KnownIdx : statsIn[i].profit[1] = 0
    /\ statsOut.mock[1].winRate = 3333

\* C6 as stated: avgProfit and avgLoss are never negative, avgProfit is
\* exactly the mean of the positive profits, avgLoss exactly the absolute
\* value of the mean of the negative ones, each 0 when its set is empty.
C6_AsStated ==
    \A r \in Reports :
        /\ r.avgProfit >= 0 /\ r.avgLoss >= 0
        /\ WinIdx = {} => r.avgProfit = 0
        /\ LossIdx = {} => r.avgLoss = 0
        /\ WinIdx # {} => r.avgProfit * Cardinality(WinIdx) = ProfitSum(WinIdx)
        /\ LossIdx # {} => r.avgLoss * Cardinality(LossIdx) = Abs(ProfitSum(LossIdx))

\* C6 amended: the same, with each mean rounded to 2 decimals.
C6_Averages ==
    \A r \in Reports :
        /\ r.avgProfit >= 0 /\ r.avgLoss >= 0
        /\ WinIdx = {} => r.avgProfit = 0
        /\ LossIdx = {} => r.avgLoss = 0
        /\ WinIdx # {} =>
              IsRounded(r.avgProfit, ProfitSum(WinIdx), Cardinality(WinIdx))
        /\ LossIdx # {} =>
              IsRounded(r.avgLoss, Abs(ProfitSum(LossIdx)), Cardinality(LossIdx))

\* a report on a list with a win, a loss and a trade of null profit
C6_Witness ==
    /\ Reports # {}
    /\ WinIdx # {} /\ LossIdx # {}
    /\ \E i \in ClosedIdx : IsNull(statsIn[i].profit)
    /\ \A r \in Reports : r.avgProfit > 0 /\ r.avgLoss > 0

\* C7: bestTrade is the largest profit or 0 if that is larger, worstTrade the
\* smallest profit or 0 if that is smaller; trades of null profit do not count.
C7_BestWorst ==
    \A r \in Reports :
        /\ r.bestTrade >= 0 /\ r.worstTrade <= 0
        /\ \A i \in KnownIdx :
              r.bestTrade >= statsIn[i].profit[1] /\ r.worstTrade <= statsIn[i].profit[1]
        /\ r.bestTrade = 0 \/ \E i \in KnownIdx : r.bestTrade = statsIn[i].profit[1]
        /\ r.worstTrade = 0 \/ \E i \in KnownIdx : r.worstTrade = statsIn[i].profit[1]

\* a report on an all-losing history that also holds a trade of null profit:
\* bestTrade is 0
C7_Witness ==
    /\ ~IsNull(statsOut.mock)
    /\ LossIdx # {} /\ WinIdx = {}
    /\ \A i \in KnownIdx : statsIn[i].profit[1] < 0
    /\ \E i \in ClosedIdx : IsNull(statsIn[i].profit)
    /\ statsOut.mock[1].bestTrade = 0
    /\ statsOut.mock[1].worstTrade < 0

StatFields == {"winRate", "avgProfit", "avgLoss", "bestTrade", "worstTrade", "totalVolume"}

\* C8: on the same list of closed trades the store and the adapter report the
\* same winRate, avgProfit, avgLoss, bestTrade, worstTrade and totalVolume.
C8_SameStatistics ==
    (AllClosed(statsIn) /\ ~IsNull(statsOut.mock) /\ ~IsNull(statsOut.service)) =>
        \A f \in StatFields : statsOut.mock[1][f] = statsOut.service[1][f]

\* both have reported on a list with a win and a loss whose volume is not a
\* whole number
C8_Witness ==
    /\ ~IsNull(statsOut.mock) /\ ~IsNull(statsOut.service)
    /\ WinIdx # {} /\ LossIdx # {}
    /\ sumNotional(statsIn) % 10000 # 0


----------------------------------------------------------------------------
(* Symbol conversions of the adapter *)

QUOTE_ASSETS_WithUSD == <<
    <<"U","S","D","T">>, <<"U","S","D","C">>, <<"U","S","D">>, <<"B","U","S","D">>,
    <<"T","U","S","D">>, <<"F","D","U","S","D">>, <<"B","T","C">>, <<"E","T","H">>,
    <<"B","N","B">>, <<"T","R","Y">>, <<"E","U","R">>, <<"A","U","D">>,
    <<"G","B","P">>, <<"D","A","I">>, <<"B","R","L">>, <<"I","D","R">> >>

QUOTE_ASSETS == <<
    <<"U","S","D","T">>, <<"U","S","D","C">>, <<"B","U","S","D">>,
    <<"T","U","S","D">>, <<"F","D","U","S","D">>, <<"B","T","C">>, <<"E","T","H">>,
    <<"B","N","B">>, <<"T","R","Y">>, <<"E","U","R">>, <<"A","U","D">>,
    <<"G","B","P">>, <<"D","A","I">>, <<"B","R","L">>, <<"I","D","R">> >>

\* the loop of formatDisplaySymbol from the i-th quote asset on
RECURSIVE formatFrom(_, _)
formatFrom(symbol, i) ==
    IF i > Len(QUOTE_ASSETS) THEN symbol
    ELSE IF EndsWith(symbol, QUOTE_ASSETS[i])
         THEN SubSeq(symbol, 1, Len(symbol) - Len(QUOTE_ASSETS[i]))
                  \o <<"/">> \o QUOTE_ASSETS[i]
         ELSE formatFrom(symbol, i + 1)

formatDisplaySymbol(symbol) == formatFrom(symbol, 1)

pairToSymbol(pair) ==
    IF pair = <<>> THEN <<>> ELSE ToUpperCase(ReplaceFirst(pair, "/"))

\* the characters of the base assets tried: letters the quote assets are made
\* of, a digit and a lower-case letter
BaseChars == {"B", "T", "U", "S", "D", "F", "E", "1", "b"}
UpperChars == BaseChars \ {"b"}

Bases == UNION {[1..n -> BaseChars] : n \in 1..MaxBaseLen}

Pair(in) == in.base \o <<"/">> \o in.quote

InitSym ==
    /\ InitStore /\ env = NoEnv /\ IdleStats /\ IdleExchange
    /\ symIn \in {[base |-> b, quote |-> QUOTE_ASSETS[q]] :
                    b \in Bases, q \in 1..Len(QUOTE_ASSETS)}
    /\ symOut = [op |-> "none", value |-> <<>>, trips |-> 0]

\* the display form (first the given pair) is put into wire form
PairToSymbol ==
    /\ symOut.op \in {"none", "formatDisplaySymbol"}
    /\ symOut.trips < 2
    /\ symOut' = [op |-> "pairToSymbol",
                  value |-> pairToSymbol(IF symOut.op = "none" THEN Pair(symIn)
                                         ELSE symOut.value),
                  trips |-> symOut.trips]
    /\ UNCHANGED <<storeVars, last, statsVars, symIn, exchVars>>

\* the wire form is put back into display form: one round trip more
FormatDisplaySymbol ==
    /\ symOut.op = "pairToSymbol"
    /\ symOut' = [op |-> "formatDisplaySymbol",
                  value |-> formatDisplaySymbol(symOut.value),
                  trips |-> symOut.trips + 1]
    /\ UNCHANGED <<storeVars, last, statsVars, symIn, exchVars>>

NextSym ==
    \/ PairToSymbol
    \/ FormatDisplaySymbol

SpecSym == InitSym /\ [][NextSym]_vars

IsUpperBase(b) == \A i \in 1..Len(b) : b[i] \in UpperChars

\* C9: for an upper-case base and a recognized quote, the wire form is
\* BASEQUOTE and the round trip gives BASE/QUOTE back, after one round trip
\* and after two.
C9_SymbolRoundTrip ==
    IsUpperBase(symIn.base) =>
        /\ symOut.op = "pairToSymbol" => symOut.value = symIn.base \o symIn.quote
        /\ symOut.op = "formatDisplaySymbol" =>
              symOut.value = symIn.base \o <<"/">> \o symIn.quote

\* the second round trip is done for a base that ends like the start of a
\* longer quote asset: FD + USD... or B + USD...
C9_Witness ==
    /\ symOut.op = "formatDisplaySymbol"
    /\ symOut.trips = 2
    /\ IsUpperBase(symIn.base)
    /\ symIn.base[Len(symIn.base)] \in {"B", "T", "D"}
    /\ symIn.quote \in {<<"U","S","D","T">>, <<"U","S","D","C">>}


----------------------------------------------------------------------------
(* The activity log near its cap *)

\* the place the sort of getLogs gives the i-th entry: after every entry with
\* a later timestamp and after the earlier entries with the same timestamp
logRank(s, i) ==
    Cardinality({j \in 1..Len(s) :
                    \/ s[j].timestamp > s[i].timestamp
                    \/ (s[j].timestamp = s[i].timestamp /\ j < i)}) + 1

\* the stable sort of getLogs, later timestamps first
sortLogsDesc(s) ==
    LET rank == [i \in 1..Len(s) |-> logRank(s, i)] \o <<>>
    IN [k \in 1..Len(s) |-> s[CHOOSE i \in 1..Len(s) : rank[i] = k]] \o <<>>

\* getLogs(limit): the sorted copy, cut to limit when one is given
getLogs(lg, limit) ==
    IF IsNull(limit) \/ limit = Some(0) THEN sortLogsDesc(lg)
    ELSE SubSeq(sortLogsDesc(lg), 1, Min2(limit[1], Len(lg)))

\* state.logs after n more calls of recordLog, one per tick from `from` on:
\* each call puts its entry first and cuts the list to MAX_LOGS entries
logsAfter(lg, from, n) ==
    SubSeq([i \in 1..n |-> [level |-> "info", message |-> "log-filler",
                            timestamp |-> from + n + 1 - i]] \o lg,
           1, Min2(n + Len(lg), MAX_LOGS))

\* the appends that fill the seed log up to the cap
LogRoom == MAX_LOGS - Len(initialLogs)

\* the levels recordLog is called with
LogLevels == {"success", "error"}

\* the store after LogRoom - 2 .. LogRoom calls of recordLog
InitLogs ==
    /\ trades = [active |-> initialActiveTrades, history |-> initialHistoryTrades]
    /\ account = accountState
    /\ settings = defaultSettings
    /\ autoTrading = autoTradingState
    /\ env = NoEnv
    /\ \E n \in (LogRoom - 2)..LogRoom :
          /\ logs = logsAfter(initialLogs, 0, n)
          /\ clock = n
    /\ last = [op |-> "init"]
    /\ IdleStats /\ IdleSym /\ IdleExchange

RecordLog ==
    /\ clock < LogRoom + MaxOps
    /\ \E level \in LogLevels :
          /\ logs' = addLog(logs, level, "recorded", clock + 1)
          /\ last' = [op |-> "recordLog", ret |-> logs'[1]]
    /\ clock' = clock + 1
    /\ UNCHANGED <<trades, account, settings, autoTrading, env, statsVars, symVars, exchVars>>

\* GET /api/logs and GET /api/logs/recent
GetLogs ==
    /\ \E limit \in {Null, Some(8)} :
          last' = [op |-> "getLogs", limit |-> limit, ret |-> getLogs(logs, limit)]
    /\ UNCHANGED <<storeVars, statsVars, symVars, exchVars>>

NextLogs ==
    \/ RecordLog
    \/ GetLogs

SpecLogs == InitLogs /\ [][NextLogs]_vars

\* C12: an append leaves at most 100 entries with the new one first and the
\* others in their order, and the entries it drops are the oldest: none is
\* later than an entry that stays.
C12_AsStated ==
    [][logs' # logs =>
          /\ Len(logs') <= MAX_LOGS
          /\ logs'[1].timestamp = clock'
          /\ Tail(logs') = SubSeq(logs, 1, Len(logs') - 1)
          /\ \A i \in Len(logs')..Len(logs) : \A j \in 1..(Len(logs') - 1) :
                logs[i].timestamp <= logs[j].timestamp]_vars


----------------------------------------------------------------------------
(* The exchange adapter (BinanceFuturesService).  A position is the part   *)
(* of a FuturesPositionRisk the close path and the trade id read:          *)
(* [symbol, positionSide, positionAmt], positionAmt a signed number of     *)
(* thousandths.  A remote call is given by its outcome: [ok |-> TRUE, ...]  *)
(* with what the exchange returned or [ok |-> FALSE, message |-> m] for    *)
(* the Error the client throws.                                            *)

LONG == <<"L","O","N","G">>
SHORT == <<"S","H","O","R","T">>
BOTH == <<"B","O","T","H">>
UNKNOWN == <<"U","N","K","N","O","W","N">>

DigitChar(d) ==
    CASE d = 0 -> "0" [] d = 1 -> "1" [] d = 2 -> "2" [] d = 3 -> "3"
      [] d = 4 -> "4" [] d = 5 -> "5" [] d = 6 -> "6" [] d = 7 -> "7"
      [] d = 8 -> "8" [] OTHER -> "9"

\* the decimal digits of a natural number
RECURSIVE DigitsOf(_)
DigitsOf(n) ==
    IF n < 10 THEN <<DigitChar(n)>> ELSE DigitsOf(n \div 10) \o <<DigitChar(n % 10)>>

\* quantity.toFixed(8) of a quantity counted in thousandths
toFixed8(quantity) ==
    DigitsOf(quantity \div 1000)
      \o <<".">>
      \o <<DigitChar((quantity \div 100) % 10), DigitChar((quantity \div 10) % 10),
           DigitChar(quantity % 10)>>
      \o <<"0", "0", "0", "0", "0">>

\* the length of s without its trailing run of ch
RECURSIVE LenWithoutTrailing(_, _)
LenWithoutTrailing(s, ch) ==
    IF s # <<>> /\ s[Len(s)] = ch
    THEN LenWithoutTrailing(SubSeq(s, 1, Len(s) - 1), ch)
    ELSE Len(s)

\* s.replace(/\.0+$/, ''): a final '.' followed by one or more zeros is cut
replaceDotZeros(s) ==
    IF /\ LenWithoutTrailing(s, "0") < Len(s)
       /\ LenWithoutTrailing(s, "0") >= 1
       /\ s[LenWithoutTrailing(s, "0")] = "."
    THEN SubSeq(s, 1, LenWithoutTrailing(s, "0") - 1)
    ELSE s

\* s.replace(/0+$/, ''): the trailing zeros are cut
replaceTrailingZeros(s) == SubSeq(s, 1, LenWithoutTrailing(s, "0"))

\* s.replace(/\.$/, ''): a final '.' is cut
replaceTrailingDot(s) ==
    IF s # <<>> /\ s[Len(s)] = "." THEN SubSeq(s, 1, Len(s) - 1) ELSE s

normalizeQuantity(quantity) ==
    IF quantity <= 0 THEN <<"0">>
    ELSE replaceTrailingDot(replaceTrailingZeros(replaceDotZeros(toFixed8(quantity))))

\* String.prototype.split(ch)
RECURSIVE Split(_, _)
Split(s, ch) ==
    IF Includes(s, ch)
    THEN <<SubSeq(s, 1, (CHOOSE i \in 1..Len(s) :
                            s[i] = ch /\ \A j \in 1..(i - 1) : s[j] # ch) - 1)>>
           \o Split(SubSeq(s, (CHOOSE i \in 1..Len(s) :
                                 s[i] = ch /\ \A j \in 1..(i - 1) : s[j] # ch) + 1,
                           Len(s)), ch)
    ELSE <<s>>

\* matchesTradeId once the id is split
matchesParts(position, tradeId, parts) ==
    IF Len(parts) = 2
    THEN parts[1] = position.symbol /\ ToUpperCase(parts[2]) = position.positionSide
    ELSE \/ position.symbol = tradeId
         \/ position.symbol \o <<"-">> \o position.positionSide = tradeId

matchesTradeId(position, tradeId) == matchesParts(position, tradeId, Split(tradeId, ":"))

\* positions.find(matchesTradeId): the index of the first match, 0 when none
findTarget(positions, tradeId) ==
    IF \E i \in 1..Len(positions) : matchesTradeId(positions[i], tradeId)
    THEN CHOOSE i \in 1..Len(positions) :
            /\ matchesTradeId(positions[i], tradeId)
            /\ \A j \in 1..(i - 1) : ~matchesTradeId(positions[j], tradeId)
    ELSE 0

\* 'long' or 'short' from the sign of positionAmt
sideOf(position) == IF position.positionAmt > 0 THEN <<"l","o","n","g">>
                    ELSE <<"s","h","o","r","t">>

\* transformPositionToTrade: null for a zero quantity, else the trade (the
\* price fields, which no position of the model carries, left out)
transformPositionToTrade(position, dualSide) ==
    IF Abs(position.positionAmt) = 0 THEN Null
    ELSE Some([id |-> position.symbol \o <<":">> \o
                        (IF dualSide THEN position.positionSide
                         ELSE ToUpperCase(sideOf(position))),
               symbol |-> formatDisplaySymbol(position.symbol),
               type |-> sideOf(position),
               status |-> "active",
               quantity |-> Abs(position.positionAmt)])


\* recordLog(level, message, details) of the adapter: the entry put first,
\* with the display symbol its message names and its details
recordLog(lg, level, message, symbol, details, now) ==
    LET added == <<[level |-> level, message |-> message, symbol |-> symbol,
                    details |-> details, timestamp |-> now]>> \o lg
    IN IF Len(added) > MAX_LOGS THEN SubSeq(added, 1, MAX_LOGS) ELSE added

orderPayloadSameDirection(position) ==
    [symbol |-> position.symbol,
     side |-> IF position.positionAmt > 0 THEN "BUY" ELSE "SELL",
     type |-> "MARKET",
     quantity |-> normalizeQuantity(Abs(position.positionAmt)),
     reduceOnly |-> TRUE,
     positionSide |-> position.positionSide]

\* the payload closePosition hands to client.postOrder
orderPayload(position) ==
    [symbol |-> position.symbol,
     side |-> IF position.positionAmt > 0 THEN "SELL" ELSE "BUY",
     type |-> "MARKET",
     quantity |-> normalizeQuantity(Abs(position.positionAmt)),
     reduceOnly |-> TRUE,
     positionSide |-> position.positionSide]

\* A service call gives [thrown, ret, logs, posted]: the message of the
\* Error that escapes it (or Null), what it returns, state.logs after it,
\* and the payloads it handed to postOrder.

\* the order of closePosition: posted, logged and turned into the result
postCloseOrder(position, outcome, lg, now) ==
    IF outcome.ok
    THEN [thrown |-> Null,
          ret |-> [success |-> TRUE, symbol |-> position.symbol,
                   positionSide |-> position.positionSide,
                   order |-> Some([orderId |-> outcome.orderId]), error |-> Null],
          logs |-> recordLog(lg, "success", "position-closed",
                             formatDisplaySymbol(position.symbol), outcome.orderId, now),
          posted |-> <<orderPayload(position)>>]
    ELSE [thrown |-> Null,
          ret |-> [success |-> FALSE, symbol |-> position.symbol,
                   positionSide |-> position.positionSide,
                   order |-> Null, error |-> Some(outcome.message)],
          logs |-> recordLog(lg, "error", "position-close-failed",
                             formatDisplaySymbol(position.symbol), outcome.message, now),
          posted |-> <<orderPayload(position)>>]

\* closePosition(position) when client.postOrder ends as `outcome`
closePosition(position, outcome, lg, now) ==
    IF Abs(position.positionAmt) = 0
    THEN [thrown |-> Null,
          ret |-> [success |-> TRUE, symbol |-> position.symbol,
                   positionSide |-> position.positionSide,
                   order |-> Null, error |-> Some("NO_QUANTITY")],
          logs |-> lg,
          posted |-> <<>>]
    ELSE postCloseOrder(position, outcome, lg, now)

\* closePositionByTradeId once the positions are fetched
closeTarget(positions, target, outcome, lg, now) ==
    IF target = 0
    THEN [thrown |-> Null,
          ret |-> [success |-> FALSE, symbol |-> UNKNOWN, positionSide |-> BOTH,
                   order |-> Null, error |-> Some("POSITION_NOT_FOUND")],
          logs |-> lg,
          posted |-> <<>>]
    ELSE closePosition(positions[target], outcome, lg, now)

\* closePositionByTradeId(tradeId) when getPositionRisk ends as `fetch`
closePositionByTradeId(fetch, tradeId, outcome, lg, now) ==
    IF ~fetch.ok
    THEN [thrown |-> Some(fetch.message), ret |-> Null, logs |-> lg, posted |-> <<>>]
    ELSE closeTarget(fetch.positions, findTarget(fetch.positions, tradeId),
                     outcome, lg, now)

\* one turn of the loop of closeAllPositions: the position skipped, or closed
\* and its result pushed
closeAllStep(acc, position, outcome, now) ==
    IF Abs(position.positionAmt) = 0 THEN acc
    ELSE [thrown |-> Null,
          ret |-> Append(acc.ret, closePosition(position, outcome, acc.logs, now).ret),
          logs |-> closePosition(position, outcome, acc.logs, now).logs,
          posted |-> acc.posted \o closePosition(position, outcome, acc.logs, now).posted]

\* the loop from the i-th position on; outcomes[i] is how postOrder ends for it
RECURSIVE closeAllFrom(_, _, _, _, _)
closeAllFrom(acc, positions, outcomes, i, now) ==
    IF i > Len(positions) THEN acc
    ELSE closeAllFrom(closeAllStep(acc, positions[i], outcomes[i], now),
                      positions, outcomes, i + 1, now)

\* a loop that ends at the first failed close
RECURSIVE closeAllUntilFailure(_, _, _, _, _)
closeAllUntilFailure(acc, positions, outcomes, i, now) ==
    IF i > Len(positions) \/ \E n \in 1..Len(acc.ret) : ~acc.ret[n].success THEN acc
    ELSE closeAllUntilFailure(closeAllStep(acc, positions[i], outcomes[i], now),
                              positions, outcomes, i + 1, now)

closeAllLoop(acc, positions, outcomes, i, now) ==
    closeAllFrom(acc, positions, outcomes, i, now)

\* closeAllPositions() when getPositionRisk ends as `fetch`
closeAllPositions(fetch, outcomes, lg, now) ==
    IF ~fetch.ok
    THEN [thrown |-> Some(fetch.message), ret |-> Null, logs |-> lg, posted |-> <<>>]
    ELSE closeAllLoop([thrown |-> Null, ret |-> <<>>, logs |-> lg, posted |-> <<>>],
                      fetch.positions, outcomes, 1, now)

\* transformPosition: null for a zero quantity (the price fields left out)
transformPosition(position) ==
    IF Abs(position.positionAmt) = 0 THEN Null
    ELSE Some([symbol |-> position.symbol,
               side |-> IF position.positionAmt > 0 THEN LONG ELSE SHORT,
               quantity |-> Abs(position.positionAmt)])

\* positions.map(transformPosition).filter(not null)
RECURSIVE transformPositions(_)
transformPositions(positions) ==
    IF positions = <<>> THEN <<>>
    ELSE transformPosition(positions[1]) \o transformPositions(Tail(positions))

\* positions.map(transformPositionToTrade).filter(not null)
RECURSIVE positionsToTrades(_, _)
positionsToTrades(positions, dualSide) ==
    IF positions = <<>> THEN <<>>
    ELSE transformPositionToTrade(positions[1], dualSide)
           \o positionsToTrades(Tail(positions), dualSide)

getAccountStateWithoutPositions(info, fetch) ==
    IF ~info.ok THEN [thrown |-> Some(info.message), ret |-> Null]
    ELSE [thrown |-> Null,
          ret |-> [connected |-> TRUE,
                   totalBalance |-> info.account.totalWalletBalance,
                   availableBalance |-> info.account.availableBalance,
                   positions |-> IF fetch.ok THEN transformPositions(fetch.positions)
                                 ELSE <<>>]]

\* getAccountState(): both remote calls are started; it throws when one fails
getAccountState(info, fetch) ==
    IF ~info.ok THEN [thrown |-> Some(info.message), ret |-> Null]
    ELSE IF ~fetch.ok THEN [thrown |-> Some(fetch.message), ret |-> Null]
    ELSE [thrown |-> Null,
          ret |-> [connected |-> TRUE,
                   totalBalance |-> info.account.totalWalletBalance,
                   availableBalance |-> info.account.availableBalance,
                   positions |-> transformPositions(fetch.positions)]]

\* the adapter's getActiveTrades(): the positions, then the account
svcGetActiveTrades(info, fetch) ==
    IF ~fetch.ok THEN [thrown |-> Some(fetch.message), ret |-> Null]
    ELSE IF ~info.ok THEN [thrown |-> Some(info.message), ret |-> Null]
    ELSE [thrown |-> Null,
          ret |-> positionsToTrades(fetch.positions,
                                    info.account.dualSidePosition)]


----------------------------------------------------------------------------
(* The endpoints of the HTTP layer that reach the exchange.  Every request *)
(* builds its own service (createBinanceService), so the memoized promises *)
(* of a service never outlive one request.                                 *)

\* the requests that append to the log run while clock < MaxRequests
MaxRequests == 2

\* settings.X and env.X of a field the record may lack (undefined)
settingOf(st, field) == IF field \in DOMAIN st THEN st[field] ELSE JNull
bindingOf(e, name) == IF name \in DOMAIN e THEN e[name] ELSE Null

\* (settings.X ?? env.X)?.trim(), for a setting that is a string or null
credentialOf(j, e) ==
    IF j = JNull THEN (IF e = Null THEN Null ELSE Some(Trim(e[1])))
    ELSE Some(Trim(j.v))

\* settings.isTestnet ?? env.BINANCE_TESTNET === 'true'
testnetFlagOf(j, e) ==
    IF j.t = "null" THEN e = Some(<<"t","r","u","e">>) ELSE Truthy(j)

\* baseUrl || undefined
definedUrl(baseUrl) == IF baseUrl = Some(<<>>) THEN Null ELSE baseUrl

\* the credentials, or null when the key or the secret is missing or blank
credentialsFrom(apiKey, apiSecret, testnet, baseUrl) ==
    IF apiKey = Null \/ apiSecret = Null THEN Null
    ELSE IF apiKey[1] = <<>> \/ apiSecret[1] = <<>> THEN Null
    ELSE Some([apiKey |-> apiKey[1], apiSecret |-> apiSecret[1],
               testnet |-> testnet, baseUrl |-> definedUrl(baseUrl)])

\* resolveCredentials(env, settings), the recvWindow left out
resolveCredentials(e, st) ==
    credentialsFrom(credentialOf(st.binanceApiKey, e.BINANCE_API_KEY),
                    credentialOf(st.binanceApiSecret, e.BINANCE_API_SECRET),
                    testnetFlagOf(settingOf(st, "isTestnet"),
                                  bindingOf(e, "BINANCE_TESTNET")),
                    credentialOf(settingOf(st, "customApiUrl"),
                                 bindingOf(e, "BINANCE_FUTURES_BASE_URL")))

\* the service is its credentials; null when none resolve
createBinanceService(e, st) == resolveCredentials(e, st)

\* the deployments: the seed settings, and settings whose credentials were
\* set to null, both without a binding
Deployments ==
    {[settings |-> defaultSettings, env |-> NoEnv],
     [settings |-> [defaultSettings EXCEPT !.binanceApiKey = JNull,
                                           !.binanceApiSecret = JNull],
      env |-> NoEnv]}

ExchangeBalances == [totalWalletBalance |-> 500000, availableBalance |-> 420000]

\* hedge mode: the two legs of one symbol, the long one closed, and a long
\* of another symbol
HedgeAccount ==
    [positions |-> <<[symbol |-> BTCUSDT, positionSide |-> LONG, positionAmt |-> 0],
                     [symbol |-> BTCUSDT, positionSide |-> SHORT, positionAmt |-> -20],
                     [symbol |-> ETHUSDT, positionSide |-> LONG, positionAmt |-> 1850]>>,
     account |-> [totalWalletBalance |-> ExchangeBalances.totalWalletBalance,
                  availableBalance |-> ExchangeBalances.availableBalance,
                  dualSidePosition |-> TRUE]]

\* one-way mode: every position has positionSide BOTH
OneWayAccount ==
    [positions |-> <<[symbol |-> ETHUSDT, positionSide |-> BOTH, positionAmt |-> 0],
                     [symbol |-> BTCUSDT, positionSide |-> BOTH, positionAmt |-> 15],
                     [symbol |-> SOLUSDT, positionSide |-> BOTH, positionAmt |-> -120000]>>,
     account |-> [totalWalletBalance |-> ExchangeBalances.totalWalletBalance,
                  availableBalance |-> ExchangeBalances.availableBalance,
                  dualSidePosition |-> FALSE]]

FlatAccount ==
    [positions |-> <<>>,
     account |-> [totalWalletBalance |-> ExchangeBalances.totalWalletBalance,
                  availableBalance |-> ExchangeBalances.availableBalance,
                  dualSidePosition |-> FALSE]]

ExchangeAccounts == {HedgeAccount, OneWayAccount, FlatAccount}

\* how client.getPositionRisk, client.getAccountInfo and client.postOrder end
PositionRiskOutcomes ==
    {[ok |-> TRUE, positions |-> exchange.positions],
     [ok |-> FALSE, message |-> "Binance API error (-1021)"]}
AccountInfoOutcomes ==
    {[ok |-> TRUE, account |-> exchange.account],
     [ok |-> FALSE, message |-> "Binance API error (-2015)"]}
OrderOutcomes ==
    {[ok |-> TRUE, orderId |-> "7001"],
     [ok |-> FALSE, message |-> "Binance API error (-2019)"]}

\* the trades GET /api/trades/active lists while the exchange answers
ListedTrades ==
    svcGetActiveTrades([ok |-> TRUE, account |-> exchange.account],
                       [ok |-> TRUE, positions |-> exchange.positions]).ret

\* the ids a close request names in the exchange path: those of the listed
\* trades, symbol:positionSide of every position, and legacy, lower-case and
\* unknown ones
PositionIds ==
    {ListedTrades[n].id : n \in 1..Len(ListedTrades)}
      \cup {exchange.positions[n].symbol \o <<":">> \o exchange.positions[n].positionSide :
              n \in 1..Len(exchange.positions)}
      \cup {BTCUSDT, BTCUSDT \o <<"-">> \o SHORT,
            BTCUSDT \o <<":">> \o <<"s","h","o","r","t">>,
            XRPUSDT \o <<":">> \o LONG}

\* the service runs with its credentials; without them the exchange is
\* never reached
InitApi ==
    /\ \E d \in Deployments :
          /\ settings = d.settings
          /\ env = d.env
          /\ exchange \in (IF createBinanceService(d.env, d.settings) # Null
                           THEN ExchangeAccounts ELSE {NoExchange})
    /\ trades = [active |-> initialActiveTrades, history |-> initialHistoryTrades]
    /\ logs = initialLogs
    /\ account = accountState
    /\ autoTrading = autoTradingState
    /\ clock = 0
    /\ last = [op |-> "init"]
    /\ orders = <<>>
    /\ services = <<>>
    /\ IdleStats /\ IdleSym

HasService == createBinanceService(env, settings) # Null

\* the remote calls of a close: the position list, then one order per payload
closeCalls(posted) == <<"getPositionRisk">> \o [n \in 1..Len(posted) |-> "postOrder"]

\* what the framework answers when the handler throws: no route catches
InternalServerError == [text |-> "Internal Server Error"]

\* POST /api/trades/:id/close
CloseTradeReq ==
    /\ clock < MaxRequests
    /\ \/ /\ HasService
          /\ \E tradeId \in PositionIds, fetch \in PositionRiskOutcomes,
                outcome \in OrderOutcomes :
                \E r \in {closePositionByTradeId(fetch, tradeId, outcome, logs, clock + 1)} :
                   /\ logs' = r.logs
                   /\ orders' = orders \o r.posted
                   /\ clock' = IF r.logs = logs THEN clock ELSE clock + 1
                   /\ last' = [op |-> "closeTrade", service |-> TRUE, tradeId |-> tradeId,
                               fetch |-> fetch, thrown |-> r.thrown, result |-> r.ret,
                               posted |-> r.posted, calls |-> closeCalls(r.posted),
                               status |-> IF r.thrown # Null THEN 500
                                          ELSE IF ~r.ret.success THEN 502 ELSE 200,
                               response |->
                                  IF r.thrown # Null THEN InternalServerError
                                  ELSE IF ~r.ret.success
                                  THEN [error |-> IF r.ret.error = Null
                                                  THEN "failed_to_close_position"
                                                  ELSE r.ret.error[1]]
                                  ELSE [success |-> TRUE, order |-> r.ret.order]]
                   /\ UNCHANGED <<trades, account>>
       \/ /\ ~HasService
          /\ \E tradeId \in TradeIds, k \in SinValues :
                \E r \in {closeTrade(Store, tradeId, k, clock + 1)} :
                   /\ trades' = r.S.trades
                   /\ logs' = r.S.logs
                   /\ account' = r.S.account
                   /\ clock' = IF IsNull(r.ret) THEN clock ELSE clock + 1
                   /\ last' = [op |-> "closeTrade", service |-> FALSE, tradeId |-> tradeId,
                               calls |-> <<>>,
                               status |-> IF IsNull(r.ret) THEN 404 ELSE 200,
                               response |-> IF IsNull(r.ret) THEN [error |-> "Trade not found"]
                                            ELSE [success |-> TRUE, trade |-> r.ret[1]]]
                   /\ UNCHANGED orders
    /\ UNCHANGED <<settings, autoTrading, env, exchange, services, statsVars, symVars>>

\* results.filter((result) => !result.success)
failedOf(results) == SelectSeq(results, LAMBDA result : ~result.success)

\* POST /api/trades/close-all
CloseAllReq ==
    /\ clock < MaxRequests
    /\ \/ /\ HasService
          /\ \E fetch \in PositionRiskOutcomes,
                outcomes \in [1..Len(exchange.positions) -> OrderOutcomes] :
                \E r \in {closeAllPositions(fetch, outcomes, logs, clock + 1)} :
                   /\ logs' = r.logs
                   /\ orders' = orders \o r.posted
                   /\ clock' = IF r.logs = logs THEN clock ELSE clock + 1
                   /\ last' = [op |-> "closeAll", service |-> TRUE,
                               fetch |-> fetch, outcomes |-> outcomes,
                               thrown |-> r.thrown, result |-> r.ret,
                               posted |-> r.posted, calls |-> closeCalls(r.posted),
                               status |-> IF r.thrown # Null THEN 500
                                          ELSE IF Len(failedOf(r.ret)) > 0 THEN 502 ELSE 200,
                               response |->
                                  IF r.thrown # Null THEN InternalServerError
                                  ELSE [success |-> Len(failedOf(r.ret)) = 0,
                                        results |-> r.ret]]
                   /\ UNCHANGED <<trades, account>>
       \/ /\ ~HasService
          /\ \E k \in SinValues :
                \E r \in {closeAllTrades(Store, k, clock + 1)} :
                   /\ trades' = r.S.trades
                   /\ logs' = r.S.logs
                   /\ account' = r.S.account
                   /\ clock' = IF r.ret = <<>> THEN clock ELSE clock + 1
                   /\ last' = [op |-> "closeAll", service |-> FALSE, calls |-> <<>>,
                               status |-> 200,
                               response |-> [success |-> TRUE, trades |-> r.ret]]
                   /\ UNCHANGED orders
    /\ UNCHANGED <<settings, autoTrading, env, exchange, services, statsVars, symVars>>

\* the body of GET /api/account when no exchange data is shown
disconnected(error, message) ==
    [connected |-> FALSE, error |-> error, message |-> message,
     totalBalance |-> 0, availableBalance |-> 0, positions |-> <<>>]

\* GET /api/account
AccountReq ==
    /\ \/ /\ HasService
          /\ \E info \in AccountInfoOutcomes, fetch \in PositionRiskOutcomes :
                \E r \in {getAccountState(info, fetch)} :
                   last' = [op |-> "account", service |-> TRUE,
                            info |-> info, fetch |-> fetch,
                            calls |-> <<"getAccountInfo", "getPositionRisk">>,
                            status |-> 200,
                            response |-> IF r.thrown = Null THEN r.ret
                                         ELSE disconnected("connection_failed", r.thrown[1])]
       \/ /\ ~HasService
          /\ last' = [op |-> "account", service |-> FALSE, calls |-> <<>>,
                      status |-> 200,
                      response |-> disconnected("no_credentials", "no-credentials-demo-data")]
    /\ UNCHANGED <<storeVars, statsVars, symVars, exchVars>>

\* GET /api/trades/active: the exchange's positions, or the mock store's
\* trades without a service or when a remote call fails
ActiveTradesReq ==
    /\ \/ /\ HasService
          /\ \E info \in AccountInfoOutcomes, fetch \in PositionRiskOutcomes :
                \E r \in {svcGetActiveTrades(info, fetch)} :
                   last' = [op |-> "activeTrades", service |-> TRUE,
                            info |-> info, fetch |-> fetch, status |-> 200,
                            response |-> IF r.thrown = Null THEN r.ret
                                         ELSE getActiveTrades(Store).ret]
       \/ /\ ~HasService
          /\ last' = [op |-> "activeTrades", service |-> FALSE, status |-> 200,
                      response |-> getActiveTrades(Store).ret]
    /\ UNCHANGED <<storeVars, statsVars, symVars, exchVars>>

\* POST /api/test-connection
TestConnectionReq ==
    /\ \/ /\ HasService
          /\ clock < MaxRequests
          /\ \E info \in AccountInfoOutcomes :
                /\ logs' = IF info.ok
                           THEN recordLog(logs, "success", "connection-verified", <<>>,
                                          "latency", clock + 1)
                           ELSE recordLog(logs, "error", "connection-test-failed", <<>>,
                                          info.message, clock + 1)
                /\ clock' = clock + 1
                /\ last' = [op |-> "testConnection", service |-> TRUE,
                            calls |-> <<"getAccountInfo">>,
                            status |-> IF info.ok THEN 200 ELSE 502,
                            response |-> IF info.ok THEN [success |-> TRUE]
                                         ELSE [success |-> FALSE,
                                               error |-> "connection_failed",
                                               message |-> info.message]]
       \/ /\ ~HasService
          /\ last' = [op |-> "testConnection", service |-> FALSE, calls |-> <<>>,
                      status |-> 400,
                      response |-> [success |-> FALSE, error |-> "no_credentials",
                                    message |-> "add-binance-keys"]]
          /\ UNCHANGED <<logs, clock>>
    /\ UNCHANGED <<trades, account, settings, autoTrading, env, statsVars, symVars, exchVars>>

\* POST /api/reports/:type
ReportReq ==
    /\ \E type \in {"weekly", "monthly", "daily"} :
          last' = IF type # "weekly" /\ type # "monthly"
                  THEN [op |-> "report", status |-> 400,
                        response |-> [error |-> "report-type-unsupported"]]
                  ELSE [op |-> "report", status |-> 200,
                        response |-> [success |-> TRUE, type |-> type,
                                      message |-> "report-will-be-sent"]]
    /\ UNCHANGED <<storeVars, statsVars, symVars, exchVars>>

\* the fills and the realized income the exchange reports for the account:
\* price and realizedPnl in cents, qty in hundredths, time in minutes;
\* getUserTrades answers oldest first
ExchangeFills ==
    <<[symbol |-> BTCUSDT, id |-> <<"1">>, side |-> "SELL", price |-> 6700000,
       qty |-> 2, realizedPnl |-> 1250, time |-> -600],
      [symbol |-> ETHUSDT, id |-> <<"2">>, side |-> "BUY", price |-> 318000,
       qty |-> 185, realizedPnl |-> -431, time |-> -300]>>

ExchangeIncome == <<[income |-> 1250], [income |-> -431]>>

\* how client.getUserTrades (all symbols of one history call),
\* client.getIncomeHistory and client.getTicker24h end
UserTradesOutcomes ==
    {[ok |-> TRUE, trades |-> ExchangeFills],
     [ok |-> FALSE, message |-> "Binance API error (-1003)"]}
IncomeOutcomes ==
    {[ok |-> TRUE, items |-> ExchangeIncome],
     [ok |-> FALSE, message |-> "Binance API error (-1022)"]}
TickerOutcomes(symbol) ==
    {[ok |-> TRUE, ticker |-> [symbol |-> symbol, lastPrice |-> 6750000]],
     [ok |-> FALSE, message |-> "Binance API error (-1121)"]}

transformUserTrade(trade) ==
    [id |-> <<"h","i","s","t","-">> \o trade.symbol \o <<"-">> \o trade.id,
     symbol |-> formatDisplaySymbol(trade.symbol),
     type |-> IF trade.side = "BUY" THEN "long" ELSE "short",
     status |-> "closed",
     entryPrice |-> trade.price, exitPrice |-> Some(trade.price),
     quantity |-> Abs(trade.qty),
     profit |-> Some(trade.realizedPnl),
     entryTime |-> trade.time, exitTime |-> Some(trade.time)]

\* the adapter's getTradesHistory(): the positions name the symbols (with
\* settings.tradingPairs the list is never empty), the fills are fetched,
\* then the account for the leverage map; latest first
svcGetTradesHistory(fetch, fills, info) ==
    IF ~fetch.ok THEN [thrown |-> Some(fetch.message), ret |-> Null]
    ELSE IF ~fills.ok THEN [thrown |-> Some(fills.message), ret |-> Null]
    ELSE IF ~info.ok THEN [thrown |-> Some(info.message), ret |-> Null]
    ELSE [thrown |-> Null,
          ret |-> sortByTimeDesc([i \in 1..Len(fills.trades) |->
                                     transformUserTrade(fills.trades[i])])]

RECURSIVE sumIncome(_)
sumIncome(items) ==
    IF items = <<>> THEN 0 ELSE items[1].income + sumIncome(Tail(items))

\* the summary the adapter computes once every remote call has answered;
\* percentages in hundredths of a percent
summaryOf(acct, items, active, history) ==
    [totalBalance |-> acct.totalWalletBalance,
     todayProfit |-> sumIncome(items),
     todayProfitPercent |-> IF acct.totalWalletBalance = 0 THEN 0
                            ELSE RoundRatio(sumIncome(items) * 10000,
                                            acct.totalWalletBalance),
     activeTrades |-> Len(active),
     successRate |-> IF svcClosedTrades(history) = <<>> THEN 0
                     ELSE RoundRatio(Len(svcWins(svcClosedTrades(history))) * 10000,
                                     Len(svcClosedTrades(history)))]

\* the adapter's getSummaryStats(): account and 24h income together, then
\* getActiveTrades(), then getTradesHistory(); the first failure is thrown
svcGetSummaryStats(info, income, fetch, fills) ==
    IF ~info.ok THEN [thrown |-> Some(info.message), ret |-> Null]
    ELSE IF ~income.ok THEN [thrown |-> Some(income.message), ret |-> Null]
    ELSE IF svcGetActiveTrades(info, fetch).thrown # Null
         THEN svcGetActiveTrades(info, fetch)
    ELSE IF svcGetTradesHistory(fetch, fills, info).thrown # Null
         THEN svcGetTradesHistory(fetch, fills, info)
    ELSE [thrown |-> Null,
          ret |-> summaryOf(info.account, income.items,
                            svcGetActiveTrades(info, fetch).ret,
                            svcGetTradesHistory(fetch, fills, info).ret)]

\* the adapter's getDetailedStats(): the summary, then the history fetched
\* again (its fills are requested a second time)
svcDetailedStats(info, income, fetch, fills, again) ==
    IF svcGetSummaryStats(info, income, fetch, fills).thrown # Null
    THEN svcGetSummaryStats(info, income, fetch, fills)
    ELSE IF svcGetTradesHistory(fetch, again, info).thrown # Null
         THEN svcGetTradesHistory(fetch, again, info)
    ELSE [thrown |-> Null,
          ret |-> [summary |-> svcGetSummaryStats(info, income, fetch, fills).ret,
                   detail |-> [svcGetDetailedStats(
                                   svcGetTradesHistory(fetch, again, info).ret)
                               EXCEPT !.totalTrades =
                                   @ + svcGetSummaryStats(info, income, fetch,
                                                          fills).ret.activeTrades]]]

mapTickerToSnapshot(ticker) ==
    [symbol |-> formatDisplaySymbol(ticker.symbol), price |-> ticker.lastPrice]

\* the adapter's getMarketSnapshot(symbol)
svcGetMarketSnapshot(t) ==
    IF ~t.ok THEN [thrown |-> Some(t.message), ret |-> Null]
    ELSE [thrown |-> Null, ret |-> mapTickerToSnapshot(t.ticker)]

\* the store's getSummaryStats() at time now: today's profit is that of the
\* trades closed within the last day (1440 minutes)
getSummaryStats(S, now) ==
    LET closedToday == SelectSeq(S.trades.history,
                                 LAMBDA t : /\ ~IsNull(t.exitTime)
                                            /\ now - t.exitTime[1] <= 1440)
        todayProfit == sumProfit(closedToday)
    IN [totalBalance |-> S.account.totalBalance,
        todayProfit |-> todayProfit,
        todayProfitPercent |-> IF S.account.totalBalance = 0 THEN 0
                               ELSE RoundRatio(todayProfit * 10000,
                                               S.account.totalBalance),
        activeTrades |-> Len(S.trades.active),
        successRate |-> IF S.trades.history = <<>> THEN 0
                        ELSE RoundRatio(Len(winningTrades(S.trades.history)) * 10000,
                                        Len(S.trades.history))]

\* what GET /api/stats answers from the store
storeDetailedStats(S, now) ==
    [summary |-> getSummaryStats(S, now),
     detail |-> getDetailedStats(S.trades.history, S.trades.active)]

answerOrError(r, mock) ==
    IF r.thrown = Null THEN r.ret ELSE [error |-> r.thrown[1]]

\* try { return c.json(await service.X()) } catch {}; return c.json(mockX())
answerOrFallback(r, mock) ==
    IF r.thrown = Null THEN r.ret ELSE mock

\* GET /api/stats/summary
SummaryReq ==
    /\ \/ /\ HasService
          /\ \E info \in AccountInfoOutcomes, income \in IncomeOutcomes,
                fetch \in PositionRiskOutcomes, fills \in UserTradesOutcomes :
                \E r \in {svcGetSummaryStats(info, income, fetch, fills)} :
                   last' = [op |-> "summary", service |-> TRUE,
                            thrown |-> r.thrown, status |-> 200,
                            response |-> answerOrFallback(
                                             r, getSummaryStats(Store, clock))]
       \/ /\ ~HasService
          /\ last' = [op |-> "summary", service |-> FALSE, thrown |-> Null,
                      status |-> 200,
                      response |-> getSummaryStats(Store, clock)]
    /\ UNCHANGED <<storeVars, statsVars, symVars, exchVars>>

\* GET /api/stats
StatsReq ==
    /\ \/ /\ HasService
          /\ \E info \in AccountInfoOutcomes, income \in IncomeOutcomes,
                fetch \in PositionRiskOutcomes, fills \in UserTradesOutcomes,
                again \in UserTradesOutcomes :
                \E r \in {svcDetailedStats(info, income, fetch, fills, again)} :
                   last' = [op |-> "stats", service |-> TRUE,
                            thrown |-> r.thrown, status |-> 200,
                            response |-> answerOrFallback(
                                             r, storeDetailedStats(Store, clock))]
       \/ /\ ~HasService
          /\ last' = [op |-> "stats", service |-> FALSE, thrown |-> Null,
                      status |-> 200,
                      response |-> storeDetailedStats(Store, clock)]
    /\ UNCHANGED <<storeVars, statsVars, symVars, exchVars>>

\* GET /api/trades/history
HistoryReq ==
    /\ \/ /\ HasService
          /\ \E fetch \in PositionRiskOutcomes, fills \in UserTradesOutcomes,
                info \in AccountInfoOutcomes :
                \E r \in {svcGetTradesHistory(fetch, fills, info)} :
                   last' = [op |-> "history", service |-> TRUE,
                            thrown |-> r.thrown, status |-> 200,
                            response |-> answerOrFallback(
                                             r, getTradesHistory(Store).ret)]
       \/ /\ ~HasService
          /\ last' = [op |-> "history", service |-> FALSE, thrown |-> Null,
                      status |-> 200,
                      response |-> getTradesHistory(Store).ret]
    /\ UNCHANGED <<storeVars, statsVars, symVars, exchVars>>

\* the :symbol parameters tried: a wire symbol, a pair with its slash, a
\* symbol the store has no baseline for, and one that normalizes to ''
MarketParams == {BTCUSDT, BTC_USDT, <<"D","O","G","E","U","S","D","T">>, <<"/">>}

\* the end of GET /api/market/:symbol: the store's snapshot, or 404
marketFallback(fallback) ==
    IF fallback = Null
    THEN [status |-> 404, response |-> [error |-> "symbol-unsupported"]]
    ELSE [status |-> 200, response |-> fallback[1]]

\* normalized || symbol
marketKey(symbol) ==
    IF pairToSymbol(symbol) # <<>> THEN pairToSymbol(symbol) ELSE symbol

\* GET /api/market/:symbol
MarketReq ==
    /\ \E symbol \in MarketParams, k \in SinValues :
          \E mock \in {marketFallback(getMarketSnapshot(marketKey(symbol), k))} :
             \/ /\ HasService /\ pairToSymbol(symbol) # <<>>
                /\ \E t \in TickerOutcomes(pairToSymbol(symbol)) :
                      \E r \in {svcGetMarketSnapshot(t)} :
                         last' = [op |-> "market", service |-> TRUE,
                                  symbol |-> symbol, k |-> k, called |-> TRUE,
                                  thrown |-> r.thrown,
                                  status |-> IF r.thrown = Null THEN 200
                                             ELSE mock.status,
                                  response |-> answerOrFallback(r, mock.response)]
             \/ /\ ~(HasService /\ pairToSymbol(symbol) # <<>>)
                /\ last' = [op |-> "market", service |-> HasService,
                            symbol |-> symbol, k |-> k, called |-> FALSE,
                            thrown |-> Null,
                            status |-> mock.status, response |-> mock.response]
    /\ UNCHANGED <<storeVars, statsVars, symVars, exchVars>>

NextApi ==
    \/ CloseTradeReq
    \/ CloseAllReq
    \/ AccountReq
    \/ ActiveTradesReq
    \/ TestConnectionReq
    \/ ReportReq
    \/ PutSettingsInvalid

SpecApi == InitApi /\ [][NextApi]_vars

\* the read endpoints that fall back to the store, between closes of all
\* trades
NextRead ==
    \/ SummaryReq
    \/ StatsReq
    \/ ActiveTradesReq
    \/ HistoryReq
    \/ MarketReq
    \/ CloseAllReq

SpecRead == InitApi /\ [][NextRead]_vars


----------------------------------------------------------------------------
(* Properties of the exchange path *)

\* the positions with a nonzero quantity, in the exchange's order: the n-th
\* is the one the n-th listed trade stands for
OpenPositions == SelectSeq(exchange.positions, LAMBDA p : p.positionAmt # 0)

ClosedById == last.op = "closeTrade" /\ last.service

\* C14: the id getActiveTrades gives a position with a nonzero quantity, in
\* dual-position mode or in one-way mode, is resolved by
\* closePositionByTradeId to that position: the result is not
\* POSITION_NOT_FOUND, it names the position's symbol and side, and the order
\* posted is the one that closes that position.
C14_AsStated ==
    (ClosedById /\ last.fetch.ok) =>
        \A n \in 1..Len(ListedTrades) :
            ListedTrades[n].id = last.tradeId =>
                /\ last.result.error # Some("POSITION_NOT_FOUND")
                /\ last.result.symbol = OpenPositions[n].symbol
                /\ last.result.positionSide = OpenPositions[n].positionSide
                /\ last.posted = <<orderPayload(OpenPositions[n])>>

\* the positions of the fetched list that match the id of the request
Matching == {n \in 1..Len(exchange.positions) :
                matchesTradeId(exchange.positions[n], last.tradeId)}

\* C15: closePositionByTradeId posts an order if and only if a position
\* matching the trade id exists and has a nonzero quantity; with no matching
\* position it returns success:false with POSITION_NOT_FOUND, and with a
\* matching position of zero quantity success:true with NO_QUANTITY, both
\* without throwing and without an order.
C15_AsStated ==
    (ClosedById /\ last.fetch.ok) =>
        /\ last.posted # <<>> <=>
              \E n \in Matching : exchange.positions[n].positionAmt # 0
        /\ Matching = {} =>
              /\ last.thrown = Null
              /\ ~last.result.success
              /\ last.result.error = Some("POSITION_NOT_FOUND")
              /\ last.posted = <<>>
        /\ (Matching # {} /\ \A n \in Matching : exchange.positions[n].positionAmt = 0) =>
              /\ last.thrown = Null
              /\ last.result.success
              /\ last.result.error = Some("NO_QUANTITY")
              /\ last.posted = <<>>

\* a step that is a close request served by the exchange and not thrown out of
CloseAttempt ==
    /\ last' # last
    /\ last'.op = "closeTrade"
    /\ last'.service
    /\ last'.thrown = Null

\* C16: every close attempt in the exchange path, whether it ends in success,
\* in an order failure, in POSITION_NOT_FOUND or in NO_QUANTITY, appends
\* exactly one log entry: of level success with the order id when the close
\* succeeded, of level error with the error message when it failed.
C16_AsStated ==
    [][CloseAttempt =>
          /\ Len(logs') = Len(logs) + 1
          /\ Tail(logs') = logs
          /\ last'.result.success =>
                /\ logs'[1].level = "success"
                /\ last'.result.order # Null =>
                      logs'[1].details = last'.result.order[1].orderId
          /\ ~last'.result.success =>
                /\ logs'[1].level = "error"
                /\ logs'[1].details = last'.result.error[1]]_vars

\* the index in the exchange's list of its n-th position with a nonzero quantity
OpenIndex(n) ==
    CHOOSE i \in 1..Len(exchange.positions) :
        /\ exchange.positions[i].positionAmt # 0
        /\ Cardinality({j \in 1..i : exchange.positions[j].positionAmt # 0}) = n

ClosedAll == last.op = "closeAll" /\ last.service /\ last.thrown = Null

\* C17: closeAllPositions returns one result per position with a nonzero
\* quantity, in the order of the positions, and none for a position of zero
\* quantity; the result of a position whose order fails has success:false,
\* and an order is posted for every position with a nonzero quantity, those
\* after a failure included, and no other order.
C17_CloseAllResults ==
    ClosedAll =>
        /\ Len(last.result) = Len(OpenPositions)
        /\ \A n \in 1..Len(OpenPositions) :
              /\ last.result[n].symbol = OpenPositions[n].symbol
              /\ last.result[n].positionSide = OpenPositions[n].positionSide
              /\ last.result[n].success = last.outcomes[OpenIndex(n)].ok
        /\ last.posted = [n \in 1..Len(OpenPositions) |-> orderPayload(OpenPositions[n])]

\* all positions closed with a position of zero quantity skipped, the first
\* order failed and a later one accepted
C17_Witness ==
    /\ ClosedAll
    /\ Len(exchange.positions) > Len(last.result)
    /\ Len(last.result) = 2
    /\ ~last.result[1].success
    /\ last.result[2].success
    /\ Len(last.posted) = 2

\* an order of the last close request was refused
OrderFailed ==
    /\ last.thrown = Null
    /\ \/ last.op = "closeTrade" /\ last.posted # <<>> /\ ~last.result.success
       \/ last.op = "closeAll" /\ \E n \in 1..Len(last.result) : ~last.result[n].success

\* C18: with credentials that resolve, a close whose position list cannot be
\* fetched or whose order is refused is answered with status 502 by
\* POST /api/trades/:id/close and by POST /api/trades/close-all.
C18_AsStated ==
    (last.op \in {"closeTrade", "closeAll"} /\ last.service) =>
        ((~last.fetch.ok \/ OrderFailed) => last.status = 502)

\* the last request was answered with a status that is not 2xx
FailureResponse == "status" \in DOMAIN last /\ (last.status < 200 \/ last.status > 299)

\* the last request named a trade or a position that does not exist
NotFoundFailure ==
    /\ last.op = "closeTrade"
    /\ \/ ~last.service
       \/ /\ last.thrown = Null
          /\ last.result.error = Some("POSITION_NOT_FOUND")

\* the last request failed at the exchange
UpstreamFailure ==
    \/ last.op \in {"closeTrade", "closeAll"} /\ last.service
          /\ (~last.fetch.ok \/ OrderFailed)
    \/ last.op = "testConnection" /\ last.service

\* C19: every response with a non-2xx status has a JSON body with an error
\* code and a message, and its status is 400 for bad input, 404 for a trade,
\* position or symbol that does not exist (mock path and exchange path
\* alike) and 502 for an upstream failure.
C19_AsStated ==
    FailureResponse =>
        /\ {"error", "message"} \subseteq DOMAIN last.response
        /\ last.status \in {400, 404, 502}
        /\ NotFoundFailure => last.status = 404
        /\ UpstreamFailure => last.status = 502
        /\ last.op \in {"putSettings", "report"} => last.status = 400

\* C20: GET /api/account answers connected:true only when credentials
\* resolve and both getAccountInfo and getPositionRisk succeed; when no
\* credentials resolve it answers connected:false with no_credentials and no
\* remote call made, when a remote call fails connected:false with
\* connection_failed; whenever connected is false the balances are 0 and the
\* positions empty.
C20_AccountEndpoint ==
    last.op = "account" =>
        /\ last.service <=> resolveCredentials(env, settings) # Null
        /\ last.response.connected => (last.service /\ last.info.ok /\ last.fetch.ok)
        /\ ~last.service =>
              /\ ~last.response.connected
              /\ last.response.error = "no_credentials"
              /\ last.calls = <<>>
        /\ (last.service /\ (~last.info.ok \/ ~last.fetch.ok)) =>
              /\ ~last.response.connected
              /\ last.response.error = "connection_failed"
        /\ ~last.response.connected =>
              /\ last.response.totalBalance = 0
              /\ last.response.availableBalance = 0
              /\ last.response.positions = <<>>
              /\ account.totalBalance # 0

\* the account asked for while getAccountInfo answers and getPositionRisk
\* does not
C20_Witness ==
    /\ last.op = "account"
    /\ last.service
    /\ last.info.ok
    /\ ~last.fetch.ok
    /\ ~last.response.connected
    /\ last.response.error = "connection_failed"
    /\ last.response.positions = <<>>

----------------------------------------------------------------------------
(* Properties of the mock store behind the HTTP layer *)

\* a step that is a close request answered by the mock store
MockClose == last'.op = "closeTrade" /\ ~last'.service

\* C27: closeTrade(id) for an id that is not in the active list, unknown or
\* closed by an earlier call, returns null and leaves the active trades, the
\* history, the account and the log as they were, and the request is
\* answered 404; a trade that is closed leaves the active list, so closing
\* it again adds no second history record.
C27_CloseUnknownIsNoOp ==
    [][MockClose =>
          /\ last'.tradeId \notin ActiveIds(trades) =>
                /\ last'.status = 404
                /\ trades' = trades
                /\ account' = account
                /\ logs' = logs
          /\ last'.tradeId \in ActiveIds(trades) =>
                /\ last'.status = 200
                /\ last'.tradeId \notin ActiveIds(trades')
                /\ Cardinality({i \in 1..Len(trades'.history) :
                                   trades'.history[i].id = last'.tradeId}) = 1]_vars

\* a seed trade closed by one request and named again by the next, which is
\* answered 404 with one history record of that trade
C27_Witness ==
    /\ last.op = "closeTrade"
    /\ ~last.service
    /\ last.status = 404
    /\ Cardinality({i \in 1..Len(trades.history) :
                       trades.history[i].id = last.tradeId}) = 1
    /\ Len(trades.active) = Len(initialActiveTrades) - 1

\* 'LONG' / 'SHORT' of a trade's direction
SideOfType(type) == IF type = "long" THEN "LONG" ELSE "SHORT"

\* C28: in every state of the mock store reached by closeTrade and
\* closeAllTrades from the seed, the account has as many positions as there
\* are active trades, and a position of a symbol and side exists exactly when
\* an active trade of that symbol and direction exists.
C28_PositionsMatchActive ==
    /\ Len(account.positions) = Len(trades.active)
    /\ \A i \in 1..Len(trades.active) :
          \E j \in 1..Len(account.positions) :
             /\ account.positions[j].symbol = toSymbolKey(trades.active[i].symbol)
             /\ account.positions[j].side = SideOfType(trades.active[i].type)
    /\ \A j \in 1..Len(account.positions) :
          \E i \in 1..Len(trades.active) :
             /\ account.positions[j].symbol = toSymbolKey(trades.active[i].symbol)
             /\ account.positions[j].side = SideOfType(trades.active[i].type)

\* one trade closed by closeTrade: two trades and two positions are left
C28_Witness ==
    /\ last.op = "closeTrade"
    /\ ~IsNull(last.ret)
    /\ Len(trades.active) = Len(initialActiveTrades) - 1
    /\ Len(account.positions) = Len(trades.active)

AutoTradingConsistent ==
    /\ autoTrading.isRunning = Truthy(settings["autoTradingEnabled"])
    /\ autoTrading.isRunning => autoTrading.enabled

\* C29: from the seed on, after any startAutoTrading, stopAutoTrading and
\* updateSettings that sets autoTradingEnabled to a boolean,
\* autoTrading.isRunning equals settings.autoTradingEnabled and isRunning
\* implies enabled; stopAutoTrading clears isRunning and the setting and
\* leaves enabled as it was.
C29_AutoTradingConsistent ==
    /\ AutoTradingConsistent
    /\ [][/\ AutoTradingConsistent'
          /\ (last'.op = "stopAutoTrading" /\ logs' # logs) =>
                /\ ~autoTrading'.isRunning
                /\ ~Truthy(settings'["autoTradingEnabled"])
                /\ autoTrading'.enabled = autoTrading.enabled]_vars

\* auto trading stopped: not running, the setting off, enabled still set
C29_Witness ==
    /\ last.op = "stopAutoTrading"
    /\ autoTrading.enabled
    /\ ~autoTrading.isRunning
    /\ ~Truthy(settings["autoTradingEnabled"])

----------------------------------------------------------------------------
(* Properties of the close order *)

\* the order is the reduce-only market order against the position
OrderCloses(order, position) ==
    /\ position.positionAmt # 0
    /\ order.type = "MARKET"
    /\ order.reduceOnly = TRUE
    /\ order.symbol = position.symbol
    /\ order.positionSide = position.positionSide
    /\ order.side = (IF position.positionAmt > 0 THEN "SELL" ELSE "BUY")

ClosedAtExchange == last.op \in {"closeTrade", "closeAll"} /\ last.service

\* C23: the order a close submits for a position with a nonzero quantity is
\* a MARKET order with reduceOnly true, the symbol and positionSide of the
\* position, and side SELL for a positive amount, BUY for a negative one;
\* close-all submits it for each such position and a close by id for the
\* position the id matches.
C23_CloseOrder ==
    ClosedAtExchange =>
        /\ last.op = "closeAll" /\ last.thrown = Null =>
              /\ Len(last.posted) = Len(OpenPositions)
              /\ \A n \in 1..Len(OpenPositions) :
                    OrderCloses(last.posted[n], OpenPositions[n])
        /\ last.op = "closeTrade" /\ last.posted # <<>> =>
              /\ Len(last.posted) = 1
              /\ \E n \in Matching :
                    OrderCloses(last.posted[1], exchange.positions[n])

\* all positions closed: a BUY for the short and a SELL for the long
C23_Witness ==
    /\ last.op = "closeAll"
    /\ last.service
    /\ \E n \in 1..Len(last.posted) : last.posted[n].side = "BUY"
    /\ \E n \in 1..Len(last.posted) : last.posted[n].side = "SELL"

\* ten to the n
RECURSIVE Pow10(_)
Pow10(n) == IF n = 0 THEN 1 ELSE 10 * Pow10(n - 1)

\* the number of thousandths a decimal string denotes, -1 when it is no
\* decimal number or has a nonzero digit after the third decimal place
ThousandthsOf(str) ==
    IF \E i \in 1..Len(str) : DigitValue(str[i]) < 0 /\ str[i] # "."
    THEN -1
    ELSE IF Len(Split(str, ".")) = 1
    THEN (IF str = <<>> THEN -1 ELSE DigitsValue(str) * 1000)
    ELSE IF Len(Split(str, ".")) > 2 \/ Len(Split(str, ".")[2]) > 3
            \/ Split(str, ".")[1] = <<>> \/ Split(str, ".")[2] = <<>>
    THEN -1
    ELSE DigitsValue(Split(str, ".")[1]) * 1000
           + DigitsValue(Split(str, ".")[2]) * Pow10(3 - Len(Split(str, ".")[2]))

\* C24: the quantity string of a close order denotes exactly the absolute
\* quantity of its position, whole numbers such as 10, 100 or 120 included.
C24_AsStated ==
    (ClosedAtExchange /\ last.op = "closeAll" /\ last.thrown = Null) =>
        \A n \in 1..Len(last.posted) :
            ThousandthsOf(last.posted[n].quantity) = Abs(OpenPositions[n].positionAmt)

----------------------------------------------------------------------------
(* resolveCredentials over the settings and bindings it can be given *)

URL_1 == <<"u","1">>
URL_2 == <<"u","2">>

\* settings: each credential null, blank, padded or plain; the URL null,
\* blank or set
CredentialSettings ==
    {[binanceApiKey |-> k, binanceApiSecret |-> sec, customApiUrl |-> u] :
        k \in {JNull, JStr(<<>>), JStr(<<" ">>), JStr(<<" ">> \o KEY_2), JStr(DEMO_KEY)},
        sec \in {JNull, JStr(<<" ">>), JStr(SECRET_2)},
        u \in {JNull, JStr(<<" ">>), JStr(URL_1)}}

\* settings.isTestnet: null, true or false
TestnetSetting(t) ==
    CASE t = "null" -> JNull [] t = "true" -> JBool(TRUE) [] OTHER -> JBool(FALSE)

\* bindings: each unset or set, the key also set to ''
CredentialBindings ==
    {[BINANCE_API_KEY |-> ek, BINANCE_API_SECRET |-> es,
      BINANCE_TESTNET |-> et, BINANCE_FUTURES_BASE_URL |-> eu] :
        ek \in {Null, Some(<<>>), Some(ENV_KEY)},
        es \in {Null, Some(ENV_SECRET)},
        et \in {Null, Some(<<"t","r","u","e">>), Some(<<"f","a","l","s","e">>)},
        eu \in {Null, Some(URL_2)}}

InitCred ==
    /\ \E st \in CredentialSettings, t \in {"null", "true", "false"} :
          settings = [field \in DOMAIN st \cup {"isTestnet"} |->
                         IF field = "isTestnet" THEN TestnetSetting(t) ELSE st[field]]
    /\ env \in CredentialBindings
    /\ trades = [active |-> initialActiveTrades, history |-> initialHistoryTrades]
    /\ logs = initialLogs
    /\ account = accountState
    /\ autoTrading = autoTradingState
    /\ clock = 0
    /\ last = [op |-> "init"]
    /\ IdleStats /\ IdleSym /\ IdleExchange

ResolveCredentials ==
    /\ last' = [op |-> "resolveCredentials", ret |-> resolveCredentials(env, settings)]
    /\ UNCHANGED <<storeVars, statsVars, symVars, exchVars>>

NextCred == ResolveCredentials

SpecCred == InitCred /\ [][NextCred]_vars

\* a source holds a value that is not blank
NonBlankSetting(j) == IsString(j) /\ Trim(j.v) # <<>>
NonBlankBinding(e) == e # Null /\ Trim(e[1]) # <<>>

\* settings value when the settings provide one, else the binding
FromSettingsElseEnv(j, e) == IF j # JNull THEN Some(Trim(j.v)) ELSE
                             IF e # Null THEN Some(Trim(e[1])) ELSE Null

ShowsPlaceholder(field) ==
    /\ last.op \in {"getSettings", "putSettings"}
    /\ last.status = 200
    /\ last.response[field] = JStr(ENV_PLACEHOLDER)

\* C30: whenever the settings response shows binanceApiKey (or
\* binanceApiSecret) as '__env__', the key (or secret) resolveCredentials
\* gives the exchange client for the same environment and store state is the
\* one of the environment, not one held in the stored settings.
C30_AsStated ==
    resolveCredentials(env, settings) # Null =>
        /\ ShowsPlaceholder("binanceApiKey") =>
              resolveCredentials(env, settings)[1].apiKey = Trim(env.BINANCE_API_KEY[1])
        /\ ShowsPlaceholder("binanceApiSecret") =>
              resolveCredentials(env, settings)[1].apiSecret = Trim(env.BINANCE_API_SECRET[1])



----------------------------------------------------------------------------
(* Fallback of the read endpoints to the mock store *)

FallbackOps == {"summary", "stats", "activeTrades", "history", "market"}

\* the request reached the adapter and one of its remote calls failed
AdapterFailed ==
    IF last.op = "activeTrades" THEN ~(last.fetch.ok /\ last.info.ok)
    ELSE last.thrown # Null

OkInfo == [ok |-> TRUE, account |-> exchange.account]
OkFetch == [ok |-> TRUE, positions |-> exchange.positions]
OkFills == [ok |-> TRUE, trades |-> ExchangeFills]
OkIncome == [ok |-> TRUE, items |-> ExchangeIncome]

\* what the mock store answers to the endpoint of the last request
StoreAnswer ==
    CASE last.op = "summary" -> [status |-> 200, response |-> getSummaryStats(Store, clock)]
      [] last.op = "stats" -> [status |-> 200, response |-> storeDetailedStats(Store, clock)]
      [] last.op = "activeTrades" -> [status |-> 200, response |-> trades.active]
      [] last.op = "history" ->
            [status |-> 200, response |-> sortByTimeDesc(trades.history)]
      [] last.op = "market" ->
            marketFallback(getMarketSnapshot(marketKey(last.symbol), last.k))

\* what the exchange answers to it while every remote call succeeds
ExchangeAnswer ==
    CASE last.op = "summary" ->
            svcGetSummaryStats(OkInfo, OkIncome, OkFetch, OkFills).ret
      [] last.op = "stats" ->
            svcDetailedStats(OkInfo, OkIncome, OkFetch, OkFills, OkFills).ret
      [] last.op = "activeTrades" -> svcGetActiveTrades(OkInfo, OkFetch).ret
      [] last.op = "history" -> svcGetTradesHistory(OkFetch, OkFills, OkInfo).ret
      [] last.op = "market" ->
            [symbol |-> formatDisplaySymbol(pairToSymbol(last.symbol)),
             price |-> 6750000]

\* the adapter was not asked: a :symbol that normalizes to ''
NotAsked == last.op = "market" /\ ~last.called

\* C22: on each of the five read endpoints, when credentials resolve and the
\* adapter call fails the response is exactly the mock store's answer for
\* that endpoint (status 200; for the market endpoint 404 when the store
\* has no snapshot); which backend answers depends on this request's own
\* remote calls only: a request whose calls succeed is answered by the
\* exchange whatever failed before it
C22_FallbackToMock ==
    (last.op \in FallbackOps /\ last.service) =>
        IF AdapterFailed \/ NotAsked
        THEN /\ last.response = StoreAnswer.response
             /\ last.status = StoreAnswer.status
             /\ (last.op # "market" => last.status = 200)
        ELSE /\ last.response = ExchangeAnswer
             /\ last.status = 200

\* a summary request whose remote call failed is answered from the store
C22_Witness ==
    /\ last.op = "summary" /\ last.service /\ AdapterFailed
    /\ last.response = getSummaryStats(Store, clock)
    /\ last.response # svcGetSummaryStats(OkInfo, OkIncome, OkFetch, OkFills).ret

----------------------------------------------------------------------------
(* The memoized promises of BinanceFuturesService.  Every request builds   *)
(* its own instance; the methods of an instance run interleaved, each up   *)
(* to its next await.                                                      *)

MaxInstances == 2
MaxCalls == 2

\* the memoized getters each method calls, grouped by the awaits between
\* them: the getters of one group are called before the method suspends
GetActiveTradesSteps == << <<"getPositions">>, <<"getAccountInfo">> >>
GetTradesHistorySteps == << <<"getPositions">>, <<"getAccountInfo">> >>
GetSummaryStatsSteps ==
    << <<"getAccountInfo">> >> \o GetActiveTradesSteps \o GetTradesHistorySteps
Methods ==
    [getAccountState |-> << <<"getAccountInfo", "getPositions">> >>,
     getActiveTrades |-> GetActiveTradesSteps,
     getTradesHistory |-> GetTradesHistorySteps,
     getSummaryStats |-> GetSummaryStatsSteps,
     getDetailedStats |-> GetSummaryStatsSteps \o GetTradesHistorySteps,
     closePositionByTradeId |-> << <<"getPositions">> >>,
     closeAllPositions |-> << <<"getPositions">> >>]

\* new BinanceFuturesService(client, settings): no promise yet
NewService ==
    [accountPromise |-> Null, positionPromise |-> Null,
     issued |-> [getAccountInfo |-> 0, getPositionRisk |-> 0],
     calls |-> 0, tasks |-> <<>>]

getAccountInfoUnmemoized(svc, by, ok) ==
    [svc EXCEPT !.accountPromise = Some([by |-> by, ok |-> ok]),
                !.issued.getAccountInfo = @ + 1]

\* getAccountInfo(): the remote call is issued when no promise is stored,
\* and its promise (which resolves or rejects: ok) is stored at once
getAccountInfo(svc, by, ok) ==
    IF svc.accountPromise = Null
    THEN [svc EXCEPT !.accountPromise = Some([by |-> by, ok |-> ok]),
                     !.issued.getAccountInfo = @ + 1]
    ELSE svc

\* getPositions(): the same for the position list
getPositions(svc, by, ok) ==
    IF svc.positionPromise = Null
    THEN [svc EXCEPT !.positionPromise = Some([by |-> by, ok |-> ok]),
                     !.issued.getPositionRisk = @ + 1]
    ELSE svc

\* the getters of one group called in order
RECURSIVE callGetters(_, _, _, _, _)
callGetters(svc, group, by, accountOk, positionsOk) ==
    IF group = <<>> THEN svc
    ELSE callGetters(IF group[1] = "getAccountInfo"
                     THEN getAccountInfo(svc, by, accountOk)
                     ELSE getPositions(svc, by, positionsOk),
                     Tail(group), by, accountOk, positionsOk)

\* the promise a getter has stored
promiseOf(svc, getter) ==
    IF getter = "getAccountInfo" THEN svc.accountPromise ELSE svc.positionPromise

\* the task list once task t has awaited group: the method throws when a
\* promise rejects, and is over after its last group
tasksAfter(svc, t, group) ==
    IF (\E n \in 1..Len(group) : ~promiseOf(svc, group[n])[1].ok)
       \/ Len(svc.tasks[t]) = 1
    THEN SubSeq(svc.tasks, 1, t - 1) \o SubSeq(svc.tasks, t + 1, Len(svc.tasks))
    ELSE [svc.tasks EXCEPT ![t] = Tail(@)]

\* the number of method calls made so far, over all instances
RECURSIVE methodCalls(_)
methodCalls(svcs) ==
    IF svcs = <<>> THEN 0 ELSE svcs[1].calls + methodCalls(Tail(svcs))

InitMemo ==
    /\ InitStore /\ env = NoEnv /\ IdleStats /\ IdleSym
    /\ exchange = HedgeAccount /\ orders = <<>> /\ services = <<>>

\* createBinanceService(c.env) at the start of a request
CreateService ==
    /\ Len(services) < MaxInstances
    /\ services' = Append(services, NewService)
    /\ last' = [op |-> "createBinanceService", request |-> Len(services) + 1]
    /\ UNCHANGED <<storeVars, statsVars, symVars, exchange, orders>>

\* a method of the instance of request i is called
Invoke ==
    /\ \E i \in 1..Len(services), m \in DOMAIN Methods :
          /\ methodCalls(services) < MaxCalls
          /\ services' = [services EXCEPT ![i].calls = @ + 1,
                                          ![i].tasks = Append(@, Methods[m])]
          /\ last' = [op |-> "invoke", request |-> i, method |-> m]
    /\ UNCHANGED <<storeVars, statsVars, symVars, exchange, orders>>

\* a pending method runs to its next await: it calls the getters of its
\* next group and receives their promises
Resume ==
    /\ \E i \in 1..Len(services), accountOk \in BOOLEAN, positionsOk \in BOOLEAN :
          \E t \in 1..Len(services[i].tasks) :
             \E svc \in {callGetters(services[i], services[i].tasks[t][1], i,
                                     accountOk, positionsOk)} :
                /\ services' = [services EXCEPT
                                   ![i] = [svc EXCEPT !.tasks =
                                              tasksAfter(svc, t, svc.tasks[t][1])]]
                /\ last' = [op |-> "await", request |-> i,
                            memoized |-> {g \in {"getAccountInfo", "getPositions"} :
                                            /\ \E n \in 1..Len(svc.tasks[t][1]) :
                                                  svc.tasks[t][1][n] = g
                                            /\ promiseOf(services[i], g) # Null},
                            received |-> {promiseOf(svc, svc.tasks[t][1][n])[1].by :
                                            n \in 1..Len(svc.tasks[t][1])}]
    /\ UNCHANGED <<storeVars, statsVars, symVars, exchange, orders>>

NextMemo == CreateService \/ Invoke \/ Resume

SpecMemo == InitMemo /\ [][NextMemo]_vars

\* C25: within one service instance the remote account-info call and the
\* remote position-risk call are each issued at most once, whatever methods
\* are called and however they interleave; and a method receives only
\* promises of calls issued by the instance of its own request
C25_MemoizedOncePerInstance ==
    /\ \A i \in 1..Len(services) :
          /\ services[i].issued.getAccountInfo <= 1
          /\ services[i].issued.getPositionRisk <= 1
    /\ (last.op = "await" => last.received = {last.request})

\* two requests are being served, each instance has issued its own
\* account-info call once, and a method of the second has just received
\* the promise its instance had stored
C25_Witness ==
    /\ Len(services) = 2
    /\ \A i \in 1..2 : /\ services[i].accountPromise # Null
                        /\ services[i].issued.getAccountInfo = 1
    /\ last.op = "await" /\ last.request = 2
    /\ last.memoized = {"getAccountInfo"}

----------------------------------------------------------------------------
(* FuturesBinanceClient.request: the parameters of a request, its          *)
(* signature and where they are sent.  A URLSearchParams is a sequence of  *)
(* <<key, value>> pairs; its serialization is the sequence of its tokens   *)
(* key = value & ...; an undefined parameter value is Null.                *)

MaxParams == 3

\* searchParams.has(key)
has(sp, key) == \E n \in 1..Len(sp) : sp[n][1] = key

\* searchParams.set(key, value): the first pair of that key takes the
\* value and the others go; without one the pair is appended
set(sp, key, value) ==
    IF has(sp, key)
    THEN LET first == CHOOSE n \in 1..Len(sp) :
                         sp[n][1] = key /\ \A m \in 1..(n - 1) : sp[m][1] # key
             kept == {n \in 1..Len(sp) : sp[n][1] # key \/ n = first}
             at(j) == CHOOSE n \in kept : Cardinality({m \in kept : m <= n}) = j
         IN [j \in 1..Cardinality(kept) |->
                IF at(j) = first THEN <<key, value>> ELSE sp[at(j)]]
    ELSE Append(sp, <<key, value>>)

\* searchParams.toString()
RECURSIVE toString(_)
toString(sp) ==
    IF sp = <<>> THEN <<>>
    ELSE IF Len(sp) = 1 THEN <<sp[1][1], "=", sp[1][2]>>
    ELSE <<sp[1][1], "=", sp[1][2], "&">> \o toString(Tail(sp))

\* HMAC-SHA256 of payload under the key, as a hex digest: a value that
\* names its key and its payload, so that two digests are equal only for
\* the same key and payload
sign(apiSecret, payload) == [hmac |-> "SHA-256", key |-> apiSecret, payload |-> payload]

\* new FuturesBinanceClient(options): recvWindow ?? 5000
FuturesBinanceClient(options) ==
    [apiKey |-> options.apiKey, apiSecret |-> options.apiSecret,
     recvWindow |-> Coalesce(options.recvWindow, "5000")]

\* the loop over Object.entries(params): undefined values are skipped
RECURSIVE appendDefined(_, _)
appendDefined(sp, params) ==
    IF params = <<>> THEN sp
    ELSE appendDefined(IF params[1][2] = Null THEN sp
                       ELSE Append(sp, <<params[1][1], params[1][2][1]>>),
                       Tail(params))

withWindowAfterSigning(client, sp, now) ==
    LET stamped == set(sp, "timestamp", now)
        signed == set(stamped, "signature", sign(client.apiSecret, toString(stamped)))
    IN IF has(signed, "recvWindow") THEN signed
       ELSE set(signed, "recvWindow", client.recvWindow)

\* the signed branch: timestamp, recvWindow unless there is one, then the
\* signature of the serialization so far
withSignature(client, sp, now) ==
    LET stamped == set(sp, "timestamp", now)
        windowed == IF has(stamped, "recvWindow") THEN stamped
                    ELSE set(stamped, "recvWindow", client.recvWindow)
    IN set(windowed, "signature", sign(client.apiSecret, toString(windowed)))

\* what request() hands to fetch at time now
request(client, options, now) ==
    LET searchParams ==
            IF options.signed
            THEN withSignature(client, appendDefined(<<>>, options.params), now)
            ELSE appendDefined(<<>>, options.params)
    IN [method |-> options.method,
        search |-> IF options.method = "GET" THEN toString(searchParams) ELSE <<>>,
        body |-> IF options.method = "GET" THEN Null
                 ELSE Some(toString(searchParams)),
        headers |->
            (IF options.method = "GET" THEN {}
             ELSE {<<"Content-Type", "application/x-www-form-urlencoded">>})
            \cup (IF options.signed \/ options.method # "GET"
                  THEN {<<"X-MBX-APIKEY", client.apiKey>>} ELSE {})]

\* the parameters the client's methods pass: a symbol, an optional limit
\* and (deleteOrder) an optional recvWindow, in any order of the object's keys
ParamValues ==
    [symbol |-> {Some("BTCUSDT")}, limit |-> {Null, Some("5")},
     recvWindow |-> {Null, Some("9000")}]

ParamLists ==
    UNION {{p \in [1..n -> UNION {{<<key, v>> : v \in ParamValues[key]} :
                                    key \in DOMAIN ParamValues}] :
              \A a, b \in 1..n : a # b => p[a][1] # p[b][1]} :
           n \in 0..MaxParams}

\* the clients createBinanceService builds: with and without
\* BINANCE_RECV_WINDOW
Clients ==
    {FuturesBinanceClient([apiKey |-> "demo-api-key", apiSecret |-> "demo-secret",
                           recvWindow |-> w]) : w \in {Null, Some("3000")}}

InitReq ==
    /\ InitStore /\ env = NoEnv /\ IdleStats /\ IdleSym /\ IdleExchange

\* one call of request(), at one of two instants
Request ==
    /\ \E client \in Clients, method \in {"GET", "POST", "DELETE"},
          params \in ParamLists, signed \in BOOLEAN,
          now \in {"1700000000000", "1700000000001"} :
          last' = [op |-> "request", client |-> client, params |-> params,
                   signed |-> signed, now |-> now,
                   sent |-> request(client, [method |-> method, params |-> params,
                                             signed |-> signed], now)]
    /\ UNCHANGED <<storeVars, statsVars, symVars, exchVars>>

NextReq == Request

SpecReq == InitReq /\ [][NextReq]_vars

\* the parameters a serialization carries, in order
Parsed(tokens) ==
    [n \in 1..((Len(tokens) + 1) \div 4) |-> <<tokens[4 * n - 3], tokens[4 * n - 1]>>]

\* the parameters the last request sent
SentParams ==
    Parsed(IF last.sent.method = "GET" THEN last.sent.search ELSE last.sent.body[1])

ValueOf(sp, key) == sp[CHOOSE n \in 1..Len(sp) : sp[n][1] = key][2]

\* the caller's parameters that have a value, in the caller's order
Supplied == appendDefined(<<>>, last.params)

\* C26: a signed request sends a timestamp and a recvWindow (the caller's
\* when one was supplied, else the client's); the signature is the digest
\* of the serialization of all other sent parameters in their sent order
\* and is the last parameter; the others are the caller's parameters
\* followed by what signing added, unchanged; a GET carries the parameters
\* in the query string and no body, any other method in the body
C26_SignedRequest ==
    (last.op = "request" /\ last.signed) =>
        LET others == SubSeq(SentParams, 1, Len(SentParams) - 1)
        IN /\ Len(SentParams) >= 3
           /\ has(others, "timestamp") /\ ValueOf(others, "timestamp") = last.now
           /\ has(others, "recvWindow")
           /\ ValueOf(others, "recvWindow") =
                 (IF has(Supplied, "recvWindow") THEN ValueOf(Supplied, "recvWindow")
                  ELSE last.client.recvWindow)
           /\ SentParams[Len(SentParams)][1] = "signature"
           /\ SentParams[Len(SentParams)][2] =
                 sign(last.client.apiSecret, toString(others))
           /\ ~has(others, "signature")
           /\ SubSeq(others, 1, Len(Supplied)) = Supplied
           /\ Len(others) = Len(Supplied) + 1 + (IF has(Supplied, "recvWindow") THEN 0 ELSE 1)
           /\ IF last.sent.method = "GET"
              THEN last.sent.body = Null /\ last.sent.search # <<>>
              ELSE last.sent.search = <<>> /\ last.sent.body # Null

\* a signed DELETE whose caller gave a recvWindow after the symbol, and a
\* limit without a value: the body carries the caller's window
C26_Witness ==
    /\ last.op = "request" /\ last.signed /\ last.sent.method = "DELETE"
    /\ last.params = <<<<"symbol", Some("BTCUSDT")>>, <<"limit", Null>>,
                       <<"recvWindow", Some("9000")>>>>
    /\ Len(SentParams) = 4
    /\ SentParams[2] = <<"recvWindow", "9000">>
    /\ SentParams[3] = <<"timestamp", last.now>>
====
